---------------------------- MODULE Spec2Model ----------------------------
(***************************************************************************)
(* A model of DocumentValidator (src/docx_validator_rules.py): the ten     *)
(* checkers of validate_all run over a document and append to self.issues. *)
(*                                                                         *)
(* Texts are sequences of Unicode code points, so that the character       *)
(* ranges of the regular expressions ([А-Я], \d, \s, \b) and upper()/      *)
(* IGNORECASE are computed as Python computes them.  Optional values       *)
(* (python None) are << >>, a present value v is <<v>>.  Lengths are in    *)
(* EMU (python-docx Length), font sizes in half-points (w:sz).             *)
(***************************************************************************)
EXTENDS Integers, Sequences, FiniteSets, TLC

VARIABLES doc, pc, issues, trace, results, result_text

vars == <<doc, pc, issues, trace, results, result_text>>

---------------------------------------------------------------------------
(* Bounds of the model *)

\* number of validate_all calls on one DocumentValidator
MaxPasses == 2
\* sections of a drawn document
MaxSections == 2
\* paragraphs of a drawn document
MaxParas == 3
\* paragraphs of a document drawn for the list of references
MaxRefParas == 5
\* runs of a drawn paragraph
MaxRuns == 2
\* issues a checker has appended when it fails
MaxFaultAfter == 2
\* sections of a document drawn with footers
MaxFooterSections == 3

---------------------------------------------------------------------------
(* Generic helpers *)

None == << >>
Some(v) == <<v>>

Abs(x) == IF x < 0 THEN -x ELSE x

RECURSIVE Concat(_)
\* the concatenation of a sequence of sequences
Concat(ss) == IF ss = << >> THEN << >> ELSE Head(ss) \o Concat(Tail(ss))

\* s[:n]
Take(s, n) == SubSeq(s, 1, IF Len(s) < n THEN Len(s) ELSE n)
\* s[n:] (n characters dropped)
Drop(s, n) == SubSeq(s, n + 1, Len(s))

IsPrefix(p, s) == Len(p) <= Len(s) /\ SubSeq(s, 1, Len(p)) = p

---------------------------------------------------------------------------
(* Characters and strings as Python sees them *)

\* str.strip() and \s: ASCII whitespace, the separators 28-31, NEL, NBSP
IsSpace(c) == c \in {9, 10, 11, 12, 13, 28, 29, 30, 31, 32, 133, 160}
\* \d, over the alphabet of the model (ASCII digits)
IsDigit(c) == c \in 48..57
\* [А-Я]: U+0410..U+042F; Ё is U+0401 and lies outside the range
IsUpperCyr(c) == c \in 1040..1071
\* [А-ЯЁ]
IsUpperCyrYo(c) == IsUpperCyr(c) \/ c = 1025
IsLowerCyr(c) == c \in 1072..1103 \/ c = 1105
IsUpperLat(c) == c \in 65..90
IsLowerLat(c) == c \in 97..122
IsLetter(c) == \/ IsUpperCyrYo(c) \/ IsLowerCyr(c)
               \/ IsUpperLat(c) \/ IsLowerLat(c)
\* \w: letters, digits, underscore
IsWordChar(c) == IsLetter(c) \/ IsDigit(c) \/ c = 95

UpperChar(c) == IF c \in 1072..1103 THEN c - 32
                ELSE IF c = 1105 THEN 1025
                ELSE IF IsLowerLat(c) THEN c - 32
                ELSE c
LowerChar(c) == IF c \in 1040..1071 THEN c + 32
                ELSE IF c = 1025 THEN 1105
                ELSE IF IsUpperLat(c) THEN c + 32
                ELSE c
\* str.upper(), str.lower()
Upper(s) == [i \in 1..Len(s) |-> UpperChar(s[i])]
Lower(s) == [i \in 1..Len(s) |-> LowerChar(s[i])]

RECURSIVE LStrip(_)
LStrip(s) == IF s # << >> /\ IsSpace(Head(s)) THEN LStrip(Tail(s)) ELSE s
RECURSIVE RStrip(_)
RStrip(s) == IF s # << >> /\ IsSpace(s[Len(s)])
             THEN RStrip(SubSeq(s, 1, Len(s) - 1)) ELSE s
\* str.strip()
Strip(s) == RStrip(LStrip(s))

\* s.startswith(p), s.endswith(p), p in s
StartsWith(s, p) == IsPrefix(p, s)
EndsWith(s, p) == Len(p) <= Len(s) /\ SubSeq(s, Len(s) - Len(p) + 1, Len(s)) = p
Contains(s, p) == \E i \in 1..(Len(s) - Len(p) + 1) : SubSeq(s, i, i + Len(p) - 1) = p

RECURSIVE DigitSpan(_)
\* the length of the longest prefix of s made of digits (a greedy \d*)
DigitSpan(s) == IF s # << >> /\ IsDigit(Head(s)) THEN 1 + DigitSpan(Tail(s)) ELSE 0
RECURSIVE SpaceSpan(_)
\* the length of the longest prefix of s made of whitespace (a greedy \s*)
SpaceSpan(s) == IF s # << >> /\ IsSpace(Head(s)) THEN 1 + SpaceSpan(Tail(s)) ELSE 0

RECURSIVE DigitsValue(_)
\* int() of a string of ASCII digits
DigitsValue(ds) ==
    IF ds = << >> THEN 0
    ELSE 10 * DigitsValue(SubSeq(ds, 1, Len(ds) - 1)) + (ds[Len(ds)] - 48)

RECURSIVE Str(_)
\* str(n) of a natural number
Str(n) == IF n < 10 THEN <<48 + n>> ELSE Str(n \div 10) \o <<48 + (n % 10)>>

(***************************************************************************)
(* The group of \d+(?:\.\d+)? matched at the head of s: the longest run of *)
(* digits, then a point and digits when both follow.  << >> when no digit  *)
(* is at the head.                                                         *)
(***************************************************************************)
NumberGroup(s) ==
    LET n == DigitSpan(s)
        rest == Drop(s, n)
        m == IF rest # << >> /\ Head(rest) = 46
             THEN DigitSpan(Tail(rest)) ELSE 0
    IN  IF n = 0 THEN << >>
        ELSE IF m > 0 THEN Take(s, n + 1 + m) ELSE Take(s, n)

\* int(float(g)) of a group g of \d+(?:\.\d+)?: the digits before the point
\* (exact for the groups of the model, which are shorter than a double's
\* 15 significant digits)
IntFloat(g) == DigitsValue(Take(g, DigitSpan(g)))

---------------------------------------------------------------------------
(* The document model read by the checkers (python-docx objects) *)

\* WD_ALIGN_PARAGRAPH members and None
Alignments == {"LEFT", "CENTER", "RIGHT", "JUSTIFY", "NONE"}

\* A run: font name (<< >> when None or empty), size in half-points, text
Run(name, size, text) == [name |-> name, size |-> size, text |-> text]

(***************************************************************************)
(* A paragraph.  text is paragraph.text; runs its runs; firstLine the      *)
(* w:firstLine attribute (twips); line and lineRule the w:spacing          *)
(* attributes; style the spacing keyword of the style name; numbered says  *)
(* the XML holds <w:numPr> with <w:numId; space_after the truth value of   *)
(* paragraph_format.space_after; field says the XML holds a field marker   *)
(* (w:fldChar or a PAGE instruction).                                      *)
(***************************************************************************)
Para(text, alignment) ==
    [text |-> text, alignment |-> alignment, runs |-> << >>,
     firstLine |-> None, line |-> None, lineRule |-> "none", style |-> "plain",
     numbered |-> FALSE, space_after |-> FALSE, field |-> FALSE]

\* A footer paragraph
FooterPara(text, alignment, field) ==
    [text |-> text, alignment |-> alignment, field |-> field]

Mm(x) == x * 36000

\* A section: page size and margins (EMU, optional), footer paragraphs
Section(w, h, l, r, t, b, footer) ==
    [page_width |-> w, page_height |-> h, left_margin |-> l,
     right_margin |-> r, top_margin |-> t, bottom_margin |-> b,
     footer |-> footer]

\* A section that satisfies every rule, without footer
GoodSection ==
    Section(Some(Mm(210)), Some(Mm(297)), Some(Mm(30)), Some(Mm(15)),
            Some(Mm(20)), Some(Mm(20)), << >>)

(***************************************************************************)
(* A document: its sections, its paragraphs, whether doc.tables is         *)
(* non-empty, and the place where reading it fails: fault is None, or      *)
(* <<[chk, after]>> when an exception is raised inside the body of checker *)
(* chk once the checker has appended `after` of its issues (all of them,   *)
(* when it has fewer).                                                     *)
(***************************************************************************)
Document(sections, paragraphs, has_tables) ==
    [sections |-> sections, paragraphs |-> paragraphs, has_tables |-> has_tables,
     fault |-> None]

\* an exception is raised inside the body of checker chk
FailsIn(d, chk) == d.fault # None /\ d.fault[1].chk = chk

\* the issues a checker body appends: all of found, or those before it fails
BeforeFault(d, chk, found) ==
    IF FailsIn(d, chk) THEN Take(found, d.fault[1].after) ELSE found

(***************************************************************************)
(* An issue.  The string the code appends is determined by kind and args   *)
(* (the values formatted into the f-string, each a text); chk names the    *)
(* checker that appended it and at the place it was found (section,        *)
(* paragraph and run indexes), neither of which is part of the string.     *)
(***************************************************************************)
Issue(chk, kind, at, args) == [chk |-> chk, kind |-> kind, at |-> at, args |-> args]

\* the string of an issue: what two issues must share to be the same string
IssueString(i) == <<i.kind, i.args>>

\* the result of a step that may raise: the issues appended before it ended
Ok(out) == [raised |-> FALSE, out |-> out]
Raise(out) == [raised |-> TRUE, out |-> out]

---------------------------------------------------------------------------
(* validate_page_format *)

a4_height == Mm(297)
a4_width == Mm(210)
left_margin_required == Mm(30)
right_margin_required == Mm(15)
right_margin_alternative == Mm(10)
top_margin_required == Mm(20)
bottom_margin_required == Mm(20)
page_tolerance == Mm(1)
margin_tolerance == Mm(1)

\* round(length.mm, 1) formatted: tenths of a millimetre, one decimal
\* (a length is never drawn half-way between two tenths)
MmText(emu) ==
    LET t == (emu + 1800) \div 3600
    IN  Str(t \div 10) \o <<46>> \o Str(t % 10)

\* a variant that rejects a deviation of exactly the tolerance
PageDimOkStrict(v, required) == Abs(v - required) < page_tolerance
\* abs(section.page_width - a4_width) <= page_tolerance
PageDimOk(v, required) == Abs(v - required) <= page_tolerance

\* a variant that rejects a deviation of exactly the tolerance
MarginViolatedAtBound(v, required) == Abs(v - required) >= margin_tolerance
\* abs(section.left_margin - left_margin_required) > margin_tolerance
MarginViolated(v, required) == Abs(v - required) > margin_tolerance

(***************************************************************************)
(* The page-size test of one section.  Arithmetic on a missing (None)      *)
(* dimension raises: the width when the condition evaluates it, the height *)
(* when the condition evaluates it or when the message formats it.         *)
(***************************************************************************)
PageSizeStep(s, k) ==
    IF s.page_width = None \/ s.page_height = None THEN Raise(<< >>)
    ELSE IF ~(PageDimOk(s.page_width[1], a4_width)
              /\ PageDimOk(s.page_height[1], a4_height))
    THEN Ok(<<Issue("page_format", "page_size", <<k>>,
                    <<MmText(s.page_width[1]), MmText(s.page_height[1])>>)>>)
    ELSE Ok(<< >>)

\* one margin test: left, top, bottom
MarginStep(v, required, kind, k) ==
    IF v = None THEN Raise(<< >>)
    ELSE IF MarginViolated(v[1], required)
    THEN Ok(<<Issue("page_format", kind, <<k>>, <<MmText(v[1])>>)>>)
    ELSE Ok(<< >>)

\* the right margin: 15 mm, 10 mm also accepted
RightMarginStep(v, k) ==
    IF v = None THEN Raise(<< >>)
    ELSE IF MarginViolated(v[1], right_margin_required)
            /\ MarginViolated(v[1], right_margin_alternative)
    THEN Ok(<<Issue("page_format", "right_margin", <<k>>, <<MmText(v[1])>>)>>)
    ELSE Ok(<< >>)

\* the five tests of the loop body, in order, for section k
SectionSteps(s, k) ==
    << PageSizeStep(s, k),
       MarginStep(s.left_margin, left_margin_required, "left_margin", k),
       RightMarginStep(s.right_margin, k),
       MarginStep(s.top_margin, top_margin_required, "top_margin", k),
       MarginStep(s.bottom_margin, bottom_margin_required, "bottom_margin", k) >>

RECURSIVE RunSteps(_)
\* steps in sequence: the issues of the steps before the first that raises
RunSteps(steps) ==
    IF steps = << >> THEN Ok(<< >>)
    ELSE IF Head(steps).raised THEN Raise(Head(steps).out)
    ELSE LET rest == RunSteps(Tail(steps))
         IN  [raised |-> rest.raised, out |-> Head(steps).out \o rest.out]

\* the loop over doc.sections
PageFormatLoop(d) ==
    RunSteps(Concat([k \in 1..Len(d.sections) |-> SectionSteps(d.sections[k], k)]))

\* validate_page_format: the loop, and one advisory issue when it raised
PageFormatIssues(d) ==
    LET r == PageFormatLoop(d)
    IN  IF r.raised \/ FailsIn(d, "page_format")
        THEN BeforeFault(d, "page_format", r.out)
             \o <<Issue("page_format", "advisory", << >>, << >>)>>
        ELSE r.out

---------------------------------------------------------------------------
(* String literals of the source *)

\* "Times New Roman"
sTimes == <<84, 105, 109, 101, 115, 32, 78, 101, 119, 32, 82, 111, 109, 97, 110>>
\* "Таблица"
sTablitsa == <<1058, 1072, 1073, 1083, 1080, 1094, 1072>>
\* "Продолжение таблицы"
sProdTabl == <<1055, 1088, 1086, 1076, 1086, 1083, 1078, 1077, 1085, 1080, 1077, 32, 1090, 1072, 1073, 1083, 1080, 1094, 1099>>
\* "таблиц"
sTablits == <<1090, 1072, 1073, 1083, 1080, 1094>>
\* "Рисунок"
sRisunok == <<1056, 1080, 1089, 1091, 1085, 1086, 1082>>
\* "рисун"
sRisun == <<1088, 1080, 1089, 1091, 1085>>
\* "СПИСОК ИСПОЛЬЗОВАННЫХ ИСТОЧНИКОВ"
sSpisokIst == <<1057, 1055, 1048, 1057, 1054, 1050, 32, 1048, 1057, 1055, 1054, 1051, 1068, 1047, 1054, 1042, 1040, 1053, 1053, 1067, 1061, 32, 1048, 1057, 1058, 1054, 1063, 1053, 1048, 1050, 1054, 1042>>
\* "СПИСОК СОКРАЩЕНИЙ И УСЛОВНЫХ ОБОЗНАЧЕНИЙ"
sSpisokSokrFull == <<1057, 1055, 1048, 1057, 1054, 1050, 32, 1057, 1054, 1050, 1056, 1040, 1065, 1045, 1053, 1048, 1049, 32, 1048, 32, 1059, 1057, 1051, 1054, 1042, 1053, 1067, 1061, 32, 1054, 1041, 1054, 1047, 1053, 1040, 1063, 1045, 1053, 1048, 1049>>
\* "СПИСОК СОКРАЩЕННЫХ И УСЛОВНЫХ ОБОЗНАЧЕНИЙ"
sSpisokSokrAlt == <<1057, 1055, 1048, 1057, 1054, 1050, 32, 1057, 1054, 1050, 1056, 1040, 1065, 1045, 1053, 1053, 1067, 1061, 32, 1048, 32, 1059, 1057, 1051, 1054, 1042, 1053, 1067, 1061, 32, 1054, 1041, 1054, 1047, 1053, 1040, 1063, 1045, 1053, 1048, 1049>>
\* "СПИСОК СОКРАЩЕНИЙ"
sSpisokSokr == <<1057, 1055, 1048, 1057, 1054, 1050, 32, 1057, 1054, 1050, 1056, 1040, 1065, 1045, 1053, 1048, 1049>>
\* "ТЕРМИНЫ И ОПРЕДЕЛЕНИЯ"
sTerminy == <<1058, 1045, 1056, 1052, 1048, 1053, 1067, 32, 1048, 32, 1054, 1055, 1056, 1045, 1044, 1045, 1051, 1045, 1053, 1048, 1071>>
\* "ПРИЛОЖЕНИЕ"
sPrilozhenieUp == <<1055, 1056, 1048, 1051, 1054, 1046, 1045, 1053, 1048, 1045>>
\* "Приложение"
sPrilozhenie == <<1055, 1088, 1080, 1083, 1086, 1078, 1077, 1085, 1080, 1077>>
\* "приложени"
sPrilozheni == <<1087, 1088, 1080, 1083, 1086, 1078, 1077, 1085, 1080>>
\* "СОДЕРЖАНИЕ"
sSoderzhanie == <<1057, 1054, 1044, 1045, 1056, 1046, 1040, 1053, 1048, 1045>>
\* "ВВЕДЕНИЕ"
sVvedenie == <<1042, 1042, 1045, 1044, 1045, 1053, 1048, 1045>>
\* "ЗАКЛЮЧЕНИЕ"
sZakl == <<1047, 1040, 1050, 1051, 1070, 1063, 1045, 1053, 1048, 1045>>
\* "ЁЗЙОЧЬЫЪ"
sExcluded == <<1025, 1047, 1049, 1054, 1063, 1068, 1067, 1066>>
\* "где "
sGde == <<1075, 1076, 1077, 32>>
\* "http"
sHttp == <<104, 116, 116, 112>>
\* "www."
sWww == <<119, 119, 119, 46>>
\* "URL:"
sURL == <<85, 82, 76, 58>>
\* "[Электронный ресурс]"
sElRes == <<91, 1069, 1083, 1077, 1082, 1090, 1088, 1086, 1085, 1085, 1099, 1081, 32, 1088, 1077, 1089, 1091, 1088, 1089, 93>>
\* "..."
sEllipsis == <<46, 46, 46>>
\* "PAGE", "NUMPAGES"
sPAGE == <<80, 65, 71, 69>>
sNUMPAGES == <<78, 85, 77, 80, 65, 71, 69, 83>>
\* the dashes of [-–—]: hyphen-minus, en dash, em dash
IsDash(c) == c \in {45, 8211, 8212}

\* str(paragraph.alignment) as the f-strings print it
AlignText(a) ==
    CASE a = "LEFT" -> <<76, 69, 70, 84, 32, 40, 48, 41>>
      [] a = "CENTER" -> <<67, 69, 78, 84, 69, 82, 32, 40, 49, 41>>
      [] a = "RIGHT" -> <<82, 73, 71, 72, 84, 32, 40, 50, 41>>
      [] a = "JUSTIFY" -> <<74, 85, 83, 84, 73, 70, 89, 32, 40, 51, 41>>
      [] OTHER -> <<78, 111, 110, 101>>

---------------------------------------------------------------------------
(* validate_font *)

\* run.font.size.pt formatted: half-points as a float's repr ("10.0", "10.5")
PtText(halfpoints) ==
    Str(halfpoints \div 2) \o <<46>> \o (IF halfpoints % 2 = 0 THEN <<48>> ELSE <<53>>)

\* a variant that also rejects a run with no font name
FontNameWrongWhenUnnamed(name) == ~Contains(name, sTimes)
\* run.font.name and 'Times New Roman' not in run.font.name
FontNameWrong(name) == name # << >> /\ ~Contains(name, sTimes)

\* run.font.size is not None and run.font.size.pt < 12
FontSizeSmall(size) == size # None /\ size[1] < 24

\* the body of the loop over paragraph.runs, for run r of paragraph p
RunFontIssues(run, p, r) ==
    (IF FontNameWrong(run.name)
     THEN <<Issue("font", "font_name", <<p, r>>, <<run.name, Take(run.text, 20)>>)>>
     ELSE << >>)
    \o
    (IF FontSizeSmall(run.size)
     THEN <<Issue("font", "font_size", <<p, r>>, <<PtText(run.size[1]), Take(run.text, 20)>>)>>
     ELSE << >>)

\* if not paragraph.text.strip(): continue
FontParagraphSkipped(para) == Strip(para.text) = << >>

\* the body of the loop over doc.paragraphs, for paragraph p
ParagraphFontIssues(para, p) ==
    IF FontParagraphSkipped(para) THEN << >>
    ELSE Concat([r \in 1..Len(para.runs) |-> RunFontIssues(para.runs[r], p, r)])

\* validate_font
FontIssues(d) ==
    Concat([p \in 1..Len(d.paragraphs) |-> ParagraphFontIssues(d.paragraphs[p], p)])

---------------------------------------------------------------------------
(* Pieces of the regular expressions *)

RECURSIVE DottedSpan(_)
\* the length of the longest \d+(?:\.\d+)* at the head of s
DottedSpan(s) ==
    LET n == DigitSpan(s)
        rest == Drop(s, n)
    IN  IF n = 0 THEN 0
        ELSE IF Len(rest) >= 2 /\ rest[1] = 46 /\ IsDigit(rest[2])
        THEN n + 1 + DottedSpan(Tail(rest))
        ELSE n

\* the number of dot-separated components of s[:n], n = DottedSpan(s)
Components(s) == 1 + Cardinality({i \in 1..DottedSpan(s) : s[i] = 46})

\* word\s+ at the head of s: what follows it as <<rest>>, or << >>
AfterWordSpaces(s, word) ==
    LET rest == Drop(s, Len(word))
        k == SpaceSpan(rest)
    IN  IF StartsWith(s, word) /\ k > 0 THEN <<Drop(rest, k)>> ELSE << >>

\* ^word\s+\d at the head of s (the match of ^word\s+\d+(?:\.\d+)?)
MatchesWordNumber(s, word) ==
    LET a == AfterWordSpaces(s, word)
    IN  a # << >> /\ DigitSpan(a[1]) > 0

\* [А-ЯЁ] under re.IGNORECASE
IsCyrAnyCase(c) == IsUpperCyrYo(c) \/ IsLowerCyr(c)

\* ^number\s+[А-ЯЁ] under re.IGNORECASE, number being the first n characters
NumberedHeadingAt(s, n) ==
    LET rest == Drop(s, n)
        k == SpaceSpan(rest)
    IN  n > 0 /\ k > 0 /\ Len(rest) > k /\ IsCyrAnyCase(rest[k + 1])

---------------------------------------------------------------------------
(* validate_paragraphs *)

\* the names of heading_patterns[0], in the order of the alternation
TopLevelNames ==
    <<sSoderzhanie, sVvedenie, sZakl, sPrilozhenieUp, sSpisokIst, sSpisokSokrFull, sTerminy>>

\* some heading pattern of validate_paragraphs matches (re.IGNORECASE)
IsHeadingText(text) ==
    \/ \E i \in 1..Len(TopLevelNames) : StartsWith(Upper(text), TopLevelNames[i])
    \/ NumberedHeadingAt(text, DottedSpan(text))
    \/ MatchesWordNumber(Lower(text), Lower(sRisunok))
    \/ MatchesWordNumber(Lower(text), Lower(sTablitsa))

\* '\t' in paragraph.text or text.endswith('...')
IsTocEntry(raw, text) == Contains(raw, <<9>>) \/ EndsWith(text, sEllipsis)

\* text.startswith('•') or text.startswith('-') or re.match(r'^\d+\.', text)
IsListItem(text) ==
    \/ StartsWith(text, <<8226>>)
    \/ StartsWith(text, <<45>>)
    \/ (DigitSpan(text) > 0 /\ Len(text) > DigitSpan(text)
        /\ text[DigitSpan(text) + 1] = 46)

\* re.match(r'^Продолжение таблицы \d+(?:\.\d+)?', text)
IsTableContinuation(text) ==
    /\ StartsWith(text, sProdTabl \o <<32>>)
    /\ DigitSpan(Drop(text, Len(sProdTabl) + 1)) > 0

\* re.match(r'^[A-ZА-Я]{2,}', text) or text.startswith('где ')
IsCapsOrGloss(text) ==
    \/ (Len(text) >= 2 /\ \A i \in 1..2 : IsUpperLat(text[i]) \/ IsUpperCyr(text[i]))
    \/ StartsWith(text, sGde)

\* the classification context: the two section flags
Context(terms, abbr) == [in_terms_section |-> terms, in_abbreviations_section |-> abbr]

\* a variant that leaves the other flag as it was on entering a section
UpdateContextKeeping(ctx, text) ==
    LET up == Upper(text)
    IN  IF Contains(up, sTerminy) THEN Context(TRUE, ctx.in_abbreviations_section)
        ELSE IF Contains(up, sSpisokSokrFull) \/ Contains(up, sSpisokSokrAlt)
        THEN Context(ctx.in_terms_section, TRUE)
        ELSE IF \/ Contains(up, sVvedenie) \/ Contains(up, sSoderzhanie)
                \/ Contains(up, sSpisokIst) \/ Contains(up, sZakl)
                \/ Contains(up, sPrilozhenieUp)
        THEN Context(FALSE, FALSE)
        ELSE ctx
\* the update of the flags by one non-blank paragraph
UpdateContext(ctx, text) ==
    LET up == Upper(text)
    IN  IF Contains(up, sTerminy) THEN Context(TRUE, FALSE)
        ELSE IF Contains(up, sSpisokSokrFull) \/ Contains(up, sSpisokSokrAlt)
        THEN Context(FALSE, TRUE)
        ELSE IF \/ Contains(up, sVvedenie) \/ Contains(up, sSoderzhanie)
                \/ Contains(up, sSpisokIst) \/ Contains(up, sZakl)
                \/ Contains(up, sPrilozhenieUp)
        THEN Context(FALSE, FALSE)
        ELSE ctx

RECURSIVE ContextAfter(_, _)
\* the flags after the first p paragraphs of the document
ContextAfter(d, p) ==
    IF p = 0 THEN Context(FALSE, FALSE)
    ELSE LET text == Strip(d.paragraphs[p].text)
         IN  IF text = << >> THEN ContextAfter(d, p - 1)
             ELSE UpdateContext(ContextAfter(d, p - 1), text)

(***************************************************************************)
(* get_first_line_indent_cm: round(twips * 0.0017638889, 3), here in       *)
(* thousandths of a centimetre (the same value for every twips < 1500).    *)
(***************************************************************************)
IndentThousandths(twips) == (twips * 176389 + 50000) \div 100000

\* repr of a float given in thousandths: trailing zeros dropped, one kept
ThousandthsText(t) ==
    LET f == t % 1000
        frac == IF f % 100 = 0 THEN Str(f \div 100)
                ELSE IF f % 10 = 0
                THEN Str(f \div 100) \o Str((f \div 10) % 10)
                ELSE Str(f \div 100) \o Str((f \div 10) % 10) \o Str(f % 10)
    IN  Str(t \div 1000) \o <<46>> \o frac

(***************************************************************************)
(* current_indent is None or Cm(current_indent) < Cm(1.24) or              *)
(* Cm(current_indent) > Cm(1.26): Cm(1.24) = 446400 and Cm(1.26) = 453600  *)
(* EMU, which Cm of the rounded value reaches from 1.240 to 1.260.         *)
(***************************************************************************)
IndentWrong(firstLine) ==
    \/ firstLine = None
    \/ IndentThousandths(firstLine[1]) < 1240
    \/ IndentThousandths(firstLine[1]) > 1260

(***************************************************************************)
(* get_line_spacing_value: the multiplier as a count of 240ths, and the    *)
(* rule.  With w:line present the direct formatting decides.  Without it   *)
(* paragraph_format.line_spacing is None and line_spacing_rule is none of  *)
(* SINGLE, ONE_POINT_FIVE, DOUBLE, so the style name decides, then 1.0.    *)
(***************************************************************************)
LineSpacingValue(para) ==
    IF para.line # None
    THEN LET rule == IF para.lineRule = "none" THEN "auto" ELSE para.lineRule
         IN  IF rule = "auto" THEN [num |-> para.line[1], rule |-> rule]
             ELSE IF para.line[1] > 288 THEN [num |-> para.line[1], rule |-> rule]
             ELSE [num |-> 240, rule |-> rule]
    ELSE CASE para.style = "one_half" -> [num |-> 360, rule |-> "auto"]
           [] para.style = "double" -> [num |-> 480, rule |-> "auto"]
           [] OTHER -> [num |-> 240, rule |-> "auto"]

\* f"{line_spacing:.2f}" of num/240 (num is never drawn half-way)
SpacingText(num) ==
    LET h == (num * 10 + 12) \div 24
    IN  Str(h \div 100) \o <<46>> \o Str((h \div 10) % 10) \o Str(h % 10)

\* "множитель" / "точно"
RuleText(rule) ==
    IF rule = "auto" THEN <<1084, 1085, 1086, 1078, 1080, 1090, 1077, 1083, 1100>>
    ELSE <<1090, 1086, 1095, 1085, 1086>>

\* the body of the loop of validate_paragraphs for paragraph p, the flags
\* being ctx after the update by this paragraph
ParagraphIssues(para, p, ctx) ==
    LET text == Strip(para.text)
        exempt == \/ IsHeadingText(text) \/ IsTocEntry(para.text, text)
                  \/ IsListItem(text) \/ IsTableContinuation(text)
        is_justified == para.alignment \in {"JUSTIFY", "NONE"}
        sp == LineSpacingValue(para)
    IN  (IF ~exempt /\ ~is_justified
         THEN <<Issue("paragraphs", "alignment", <<p>>,
                      <<AlignText(para.alignment), Take(text, 20)>>)>>
         ELSE << >>)
        \o
        (IF \/ exempt
            \/ ctx.in_terms_section \/ ctx.in_abbreviations_section
            \/ IsCapsOrGloss(text)
         THEN << >>
         ELSE (IF IndentWrong(para.firstLine)
               THEN <<Issue("paragraphs", "indent", <<p>>,
                            <<IF para.firstLine = None THEN <<48>>
                              ELSE ThousandthsText(IndentThousandths(para.firstLine[1])),
                              Take(text, 20)>>)>>
               ELSE << >>)
              \o
              (IF ~(336 <= sp.num /\ sp.num <= 384)
               THEN <<Issue("paragraphs", "line_spacing", <<p>>,
                            <<SpacingText(sp.num), RuleText(sp.rule), Take(text, 20)>>)>>
               ELSE << >>))

\* validate_paragraphs
ParagraphsIssues(d) ==
    Concat([p \in 1..Len(d.paragraphs) |->
              IF Strip(d.paragraphs[p].text) = << >> THEN << >>
              ELSE ParagraphIssues(d.paragraphs[p], p, ContextAfter(d, p))])

---------------------------------------------------------------------------
(* validate_headings *)

\* ^(NAME)(\s*$|\.{3}.*) under re.IGNORECASE, on stripped text
IsLevel0(text) ==
    \E i \in 1..Len(TopLevelNames) :
        \/ Upper(text) = TopLevelNames[i]
        \/ StartsWith(Upper(text), TopLevelNames[i] \o sEllipsis)

\* the level of the first heading pattern that matches, -1 when none does
HeadingLevel(text) ==
    IF IsLevel0(text) THEN 0
    ELSE IF NumberedHeadingAt(text, DigitSpan(text)) THEN 1
    ELSE IF Components(text) = 2 /\ NumberedHeadingAt(text, DottedSpan(text)) THEN 2
    ELSE IF Components(text) = 3 /\ NumberedHeadingAt(text, DottedSpan(text)) THEN 3
    ELSE -1

\* str.isupper(): some cased character, and no lower-case one
IsUpperStr(s) ==
    /\ \E i \in 1..Len(s) : IsLetter(s[i])
    /\ \A i \in 1..Len(s) : ~(IsLowerCyr(s[i]) \/ IsLowerLat(s[i]))

RECURSIVE NonSpaceSpan(_)
NonSpaceSpan(s) == IF s # << >> /\ ~IsSpace(Head(s)) THEN 1 + NonSpaceSpan(Tail(s)) ELSE 0
\* text.split()[0] of a stripped, non-empty text
FirstWord(text) == Take(text, NonSpaceSpan(text))

\* the branch of level 0
Level0Issues(para, text, p) ==
    LET toc == Contains(text, <<9>>) \/ EndsWith(text, sEllipsis)
    IN  (IF para.alignment \notin {"CENTER", "NONE"} /\ ~toc
         THEN <<Issue("headings", "not_centered", <<p>>, <<text>>)>> ELSE << >>)
        \o
        (IF ~IsUpperStr(text) /\ ~toc /\ ~IsUpperStr(FirstWord(text))
         THEN <<Issue("headings", "not_upper", <<p>>, <<text>>)>> ELSE << >>)

\* int(float(match.group(1))) < 1 for the group of (\d+(?:\.\d+)?) at the head
HeadingNumberInvalid(text) ==
    NumberGroup(text) # << >> /\ IntFloat(NumberGroup(text)) < 1

\* the branch of levels 1 to 3
NumberedHeadingIssues(text, level, p) ==
    (IF EndsWith(text, <<46>>)
     THEN <<Issue("headings", "ends_with_period", <<p>>, <<text>>)>> ELSE << >>)
    \o
    (IF level = 1 /\ HeadingNumberInvalid(text)
     THEN <<Issue("headings", "invalid_numbering", <<p>>, <<text>>)>> ELSE << >>)

\* validate_headings: the headings collected in document order, then checked
HeadingsIssues(d) ==
    Concat([p \in 1..Len(d.paragraphs) |->
              LET text == Strip(d.paragraphs[p].text)
                  level == HeadingLevel(text)
              IN  IF text = << >> \/ level = -1 THEN << >>
                  ELSE IF level = 0 THEN Level0Issues(d.paragraphs[p], text, p)
                  ELSE NumberedHeadingIssues(text, level, p)])

---------------------------------------------------------------------------
(* validate_page_numbering *)

\* 'PAGE' in xml_str or 'w:fldChar' in xml_str: the XML of a paragraph holds
\* its text, so the word PAGE in the text counts as well
HasFieldMarker(para) == para.field \/ Contains(para.text, sPAGE)

\* the state of the scan over the sections
NumberingState(has, third, stop, out) ==
    [has_page_numbers |-> has, page_numbers_start_on_third_page |-> third,
     stop |-> stop, out |-> out]

\* the body of the loop over enumerate(doc.sections) for section k (index k-1)
FooterStep(st, section, k) ==
    LET fps == section.footer
        texted == \E j \in 1..Len(fps) : Strip(fps[j].text) # << >>
        marked == \E j \in 1..Len(fps) : HasFieldMarker(fps[j])
        misplaced == Concat([j \in 1..Len(fps) |->
                        IF Strip(fps[j].text) # << >>
                           /\ fps[j].alignment \notin {"CENTER", "NONE"}
                        THEN <<Issue("page_numbering", "not_centered", <<k, j>>, << >>)>>
                        ELSE << >>])
    IN  IF st.stop \/ fps = << >> THEN st
        ELSE IF texted
        THEN NumberingState(TRUE, st.page_numbers_start_on_third_page \/ k - 1 >= 2,
                            TRUE, st.out \o misplaced)
        ELSE IF marked
        THEN NumberingState(TRUE, st.page_numbers_start_on_third_page \/ k - 1 >= 2,
                            FALSE, st.out)
        ELSE st

RECURSIVE FooterScan(_, _)
\* the loop over the first k sections
FooterScan(d, k) ==
    IF k = 0 THEN NumberingState(FALSE, FALSE, FALSE, << >>)
    ELSE FooterStep(FooterScan(d, k - 1), d.sections[k], k)

\* the fallback scan of the body paragraphs: the first paragraph that holds
\* PAGE or a field marker, 0 when there is none
FirstMarkedParagraph(d) ==
    LET marked == {i \in 1..Len(d.paragraphs) : HasFieldMarker(d.paragraphs[i])}
    IN  IF marked = {} THEN 0 ELSE CHOOSE i \in marked : \A j \in marked : i <= j

\* the body of the try block of validate_page_numbering
PageNumberingBody(d) ==
    LET st == FooterScan(d, Len(d.sections))
        first == FirstMarkedParagraph(d)
        has == st.has_page_numbers \/ first # 0
        third == \/ st.page_numbers_start_on_third_page
                 \/ (~st.has_page_numbers /\ first # 0 /\ ((first - 1) \div 20) + 1 >= 3)
    IN  st.out
        \o (IF ~has /\ Len(d.paragraphs) > 20
            THEN <<Issue("page_numbering", "not_found", << >>, << >>)>> ELSE << >>)
        \o (IF has /\ ~third
            THEN <<Issue("page_numbering", "must_start_third", << >>, << >>)>> ELSE << >>)

\* validate_page_numbering: except Exception: pass
PageNumberingIssues(d) ==
    BeforeFault(d, "page_numbering", PageNumberingBody(d))

---------------------------------------------------------------------------
(* validate_tables *)

\* the caption a paragraph contributes to table_numbers: <<[num, p, cont]>>,
\* or << >> when it is no caption
TableCaption(para, p) ==
    LET text == Strip(para.text)
        main == AfterWordSpaces(text, sTablitsa)
        cont == AfterWordSpaces(text, sProdTabl)
    IN  IF para.text = << >> THEN << >>
        ELSE IF StartsWith(text, sTablitsa \o <<32>>)
        THEN IF main # << >> /\ NumberGroup(main[1]) # << >>
             THEN <<[num |-> IntFloat(NumberGroup(main[1])), p |-> p, cont |-> FALSE]>>
             ELSE << >>
        ELSE IF StartsWith(text, sProdTabl \o <<32>>)
        THEN IF cont # << >> /\ NumberGroup(cont[1]) # << >>
             THEN <<[num |-> IntFloat(NumberGroup(cont[1])), p |-> p, cont |-> TRUE]>>
             ELSE << >>
        ELSE << >>

\* table_captions, in document order
TableCaptions(d) ==
    Concat([p \in 1..Len(d.paragraphs) |-> TableCaption(d.paragraphs[p], p)])

RECURSIVE SortedSeq(_)
\* sorted(S) of a set of integers
SortedSeq(S) ==
    IF S = {} THEN << >>
    ELSE LET m == CHOOSE x \in S : \A y \in S : x <= y
         IN  <<m>> \o SortedSeq(S \ {m})

\* tables_in_order = sorted(table_numbers.keys())
TablesInOrder(d) ==
    SortedSeq({TableCaptions(d)[j].num : j \in 1..Len(TableCaptions(d))})

\* the number of a caption is followed by a word boundary (\b)
BoundaryAfter(s, n) == Len(s) = n \/ ~IsWordChar(s[n + 1])

\* \s+N\b at the head of s
SpacesNumberBoundary(s, n) ==
    LET k == SpaceSpan(s)
        rest == Drop(s, k)
    IN  k > 0 /\ StartsWith(rest, Str(n)) /\ BoundaryAfter(rest, Len(Str(n)))

\* re.search(r'таблиц[аеуыи]?\s+N\b', text, re.IGNORECASE)
MentionsTable(text, n) ==
    LET low == Lower(text)
    IN  \E i \in 1..Len(low) :
          LET tail == Drop(low, i - 1)
              rest == Drop(tail, Len(sTablits))
          IN  /\ StartsWith(tail, sTablits)
              /\ \/ SpacesNumberBoundary(rest, n)
                 \/ /\ rest # << >>
                    /\ Head(rest) \in {1072, 1077, 1091, 1099, 1080}
                    /\ SpacesNumberBoundary(Tail(rest), n)

\* a variant that counts positions from 0
TableSequenceBrokenFromZero(table_num, i) == table_num # i - 1
\* if table_num != i, i counted from 1
TableSequenceBroken(table_num, i) == table_num # i

\* ^Таблица\s+N(\s+[-–—]\s+|\s*$) on the stripped text of the main caption
MainCaptionWellFormed(text, n) ==
    LET a == AfterWordSpaces(text, sTablitsa)
        rest == IF a = << >> THEN << >> ELSE Drop(a[1], Len(Str(n)))
        k == SpaceSpan(rest)
        dash == Drop(rest, k)
    IN  /\ a # << >>
        /\ StartsWith(a[1], Str(n))
        /\ \/ rest = << >>
           \/ /\ k > 0 /\ dash # << >> /\ IsDash(Head(dash))
              /\ SpaceSpan(Tail(dash)) > 0

\* has_reference: some paragraph with text mentions table n
TableReferenced(d, n) ==
    \E p \in 1..Len(d.paragraphs) : MentionsTable(d.paragraphs[p].text, n)

\* the body of the loop over enumerate(tables_in_order, 1)
TableIssues(d, i, table_num) ==
    LET all == TableCaptions(d)
        captions == SelectSeq(all, LAMBDA c : c.num = table_num)
        mains == SelectSeq(captions, LAMBDA c : ~c.cont)
    IN  (IF TableSequenceBroken(table_num, i)
         THEN <<Issue("tables", "sequence", <<table_num>>, <<Str(table_num), Str(i)>>)>>
         ELSE << >>)
        \o
        (IF mains # << >>
            /\ ~MainCaptionWellFormed(Strip(d.paragraphs[mains[1].p].text), table_num)
         THEN <<Issue("tables", "caption_format", <<table_num>>, <<Str(table_num)>>)>>
         ELSE << >>)
        \o
        Concat([j \in 1..Len(captions) |->
                 LET para == d.paragraphs[captions[j].p]
                 IN  IF captions[j].cont
                     THEN IF para.alignment # "RIGHT"
                          THEN <<Issue("tables", "continuation_alignment",
                                       <<table_num, captions[j].p>>, <<Take(para.text, 30)>>)>>
                          ELSE << >>
                     ELSE IF para.alignment \notin {"LEFT", "NONE"}
                          THEN <<Issue("tables", "caption_alignment",
                                       <<table_num, captions[j].p>>, <<Take(para.text, 30)>>)>>
                          ELSE << >>])
        \o
        (IF ~TableReferenced(d, table_num)
         THEN <<Issue("tables", "no_reference", <<table_num>>, <<Str(table_num)>>)>>
         ELSE << >>)

\* if not self.doc.tables: return
TablesSkipped(d) == ~d.has_tables

\* validate_tables
TablesIssues(d) ==
    IF TablesSkipped(d) THEN << >>
    ELSE Concat([i \in 1..Len(TablesInOrder(d)) |-> TableIssues(d, i, TablesInOrder(d)[i])])

---------------------------------------------------------------------------
(* validate_figures *)

\* the paragraphs whose stripped text matches ^Рисунок\s+\d+, in order
FigureCaptionParagraphs(d) ==
    SelectSeq([p \in 1..Len(d.paragraphs) |-> p],
              LAMBDA p : /\ d.paragraphs[p].text # << >>
                         /\ MatchesWordNumber(Strip(d.paragraphs[p].text), sRisunok))

\* ^Рисунок\s+\d+\s+[\-–—]\s+\w
FigureCaptionWellFormed(caption) ==
    LET a == AfterWordSpaces(caption, sRisunok)
        rest == IF a = << >> THEN << >> ELSE Drop(a[1], DigitSpan(a[1]))
        k == SpaceSpan(rest)
        dash == Drop(rest, k)
        title == IF dash = << >> THEN << >> ELSE Drop(Tail(dash), SpaceSpan(Tail(dash)))
    IN  /\ a # << >> /\ DigitSpan(a[1]) > 0
        /\ k > 0 /\ dash # << >> /\ IsDash(Head(dash))
        /\ SpaceSpan(Tail(dash)) > 0
        /\ title # << >> /\ IsWordChar(Head(title))

\* int(float(group 1)) of re.search(r'Рисунок\s+(\d+(?:\.\d+)?)', caption)
FigureNumber(caption) == IntFloat(NumberGroup(AfterWordSpaces(caption, sRisunok)[1]))

\* re.search(r'рисун[окаеи][ак]?\s+N\b', text, re.IGNORECASE)
MentionsFigure(text, n) ==
    LET low == Lower(text)
    IN  \E i \in 1..Len(low) :
          LET tail == Drop(low, i - 1)
              rest == Drop(tail, Len(sRisun))
          IN  /\ StartsWith(tail, sRisun)
              /\ rest # << >>
              /\ Head(rest) \in {1086, 1082, 1072, 1077, 1080}
              /\ \/ SpacesNumberBoundary(Tail(rest), n)
                 \/ /\ Tail(rest) # << >>
                    /\ Head(Tail(rest)) \in {1072, 1082}
                    /\ SpacesNumberBoundary(Tail(Tail(rest)), n)

\* has_reference: some paragraph of the document mentions figure n
FigureReferenced(d, n) ==
    \E p \in 1..Len(d.paragraphs) : MentionsFigure(d.paragraphs[p].text, n)

\* the body of the loop over the captions, for the i-th caption (paragraph p)
FigureIssues(d, i, p) ==
    LET para == d.paragraphs[p]
        caption == Strip(para.text)
    IN  (IF ~FigureCaptionWellFormed(caption)
         THEN <<Issue("figures", "caption_format", <<i>>, <<caption>>)>> ELSE << >>)
        \o
        (IF para.alignment \notin {"CENTER", "NONE"}
         THEN <<Issue("figures", "caption_alignment", <<i>>, <<Take(caption, 30)>>)>>
         ELSE << >>)
        \o
        (IF FigureNumber(caption) # i
         THEN <<Issue("figures", "sequence", <<i>>,
                      <<caption, Str(FigureNumber(caption)), Str(i)>>)>>
         ELSE << >>)
        \o
        (IF ~FigureReferenced(d, i)
         THEN <<Issue("figures", "no_reference", <<i>>, <<Str(i)>>)>> ELSE << >>)

\* validate_figures
FiguresIssues(d) ==
    LET caps == FigureCaptionParagraphs(d)
    IN  Concat([i \in 1..Len(caps) |-> FigureIssues(d, i, caps[i])])

---------------------------------------------------------------------------
(* validate_equations *)

\* 'http' in text or 'www.' in text or 'URL:' in text or '[Электронный ресурс]' in text
IsUrlLine(text) ==
    \/ Contains(text, sHttp) \/ Contains(text, sWww)
    \/ Contains(text, sURL) \/ Contains(text, sElRes)

\* \.\s+[А-ЯЁа-яёA-Za-z] at the head of s
PointSpacesLetter(s) ==
    LET k == IF s = << >> THEN 0 ELSE SpaceSpan(Tail(s))
    IN  /\ s # << >> /\ Head(s) = 46 /\ k > 0
        /\ Len(s) > k + 1 /\ IsLetter(s[k + 2])

\* re.match(r'^\d+(?:\.\d+)?\.\s+[А-ЯЁа-яёA-Za-z]', text)
IsNumberedLine(text) ==
    LET n == DigitSpan(text)
        g == Len(NumberGroup(text))
    IN  n > 0 /\ (PointSpacesLetter(Drop(text, n)) \/ PointSpacesLetter(Drop(text, g)))

\* re.search(r'\b[a-zA-Zа-яА-ЯЁё]\s*[=<>]', text)
HasAlphabeticVar(text) ==
    \E j \in 1..Len(text) :
        LET rest == Drop(text, j)
            k == SpaceSpan(rest)
        IN  /\ IsLetter(text[j])
            /\ (j = 1 \/ ~IsWordChar(text[j - 1]))
            /\ Len(rest) > k /\ rest[k + 1] \in {61, 60, 62}

\* the paragraph is taken for a formula
IsEquation(text) ==
    /\ ~IsUrlLine(text)
    /\ ~IsNumberedLine(text)
    /\ Contains(text, <<61>>)
    /\ \/ \E j \in 1..Len(text) : text[j] \in {43, 45, 42, 47, 94}
       \/ HasAlphabeticVar(text)

\* the text ends with (N), (N.N), (N.N.N) or (N.N.N.N): one of the two
\* patterns \(\d+(?:\.\d+)?\.\d+(?:\.\d+)?\)$ and \(\d+(?:\.\d+)?\)$
HasEquationNumber(text) ==
    /\ text # << >> /\ text[Len(text)] = 41
    /\ \E j \in 1..Len(text) :
         LET inner == SubSeq(text, j + 1, Len(text) - 1)
         IN  /\ text[j] = 40 /\ inner # << >>
             /\ DottedSpan(inner) = Len(inner)
             /\ Components(inner) <= 4

\* the body of the loop of validate_equations for paragraph i
EquationIssues(d, i) ==
    LET para == d.paragraphs[i]
        text == Strip(para.text)
    IN  IF ~IsEquation(text) THEN << >>
        ELSE
          (IF i > 1 /\ Strip(d.paragraphs[i - 1].text) # << >>
              /\ ~d.paragraphs[i - 1].space_after
           THEN <<Issue("equations", "blank_before", <<i>>, <<Take(text, 30)>>)>>
           ELSE << >>)
          \o
          (IF i < Len(d.paragraphs) /\ Strip(d.paragraphs[i + 1].text) # << >>
              /\ ~para.space_after
           THEN <<Issue("equations", "blank_after", <<i>>, <<Take(text, 30)>>)>>
           ELSE << >>)
          \o
          (IF ~HasEquationNumber(text)
           THEN <<Issue("equations", "no_number", <<i>>, <<Take(text, 30)>>)>>
           ELSE << >>)

\* validate_equations
EquationsIssues(d) ==
    Concat([i \in 1..Len(d.paragraphs) |-> EquationIssues(d, i)])

---------------------------------------------------------------------------
(* validate_references *)

required_headings ==
    <<sSoderzhanie, sVvedenie, sZakl, sSpisokIst, sSpisokSokrFull, sTerminy>>

\* found_headings[heading]
HeadingFound(d, heading) ==
    \E p \in 1..Len(d.paragraphs) :
        /\ d.paragraphs[p].text # << >>
        /\ Contains(Upper(Strip(d.paragraphs[p].text)), heading)

\* "СПИСОК ИСПОЛЬЗОВАННЫХ ИСТОЧНИКОВ" in paragraph.text.upper()
OpensReferences(para) == Contains(Upper(para.text), sSpisokIst)

\* a non-blank paragraph naming ПРИЛОЖЕНИЕ, СПИСОК СОКРАЩЕНИЙ or ТЕРМИНЫ И ОПРЕДЕЛЕНИЯ
ClosesReferences(para) ==
    /\ Strip(para.text) # << >>
    /\ \/ Contains(Upper(para.text), sPrilozhenieUp)
       \/ Contains(Upper(para.text), sSpisokSokr)
       \/ Contains(Upper(para.text), sTerminy)

RECURSIVE InReferencesAfter(_, _)
\* in_references_section after the first p paragraphs
InReferencesAfter(d, p) ==
    IF p = 0 THEN FALSE
    ELSE IF OpensReferences(d.paragraphs[p]) THEN TRUE
    ELSE IF InReferencesAfter(d, p - 1) /\ ClosesReferences(d.paragraphs[p]) THEN FALSE
    ELSE InReferencesAfter(d, p - 1)

\* references_paragraphs: the paragraphs the loop appends, in order
ReferencesParagraphs(d) ==
    SelectSeq([p \in 1..Len(d.paragraphs) |-> p],
              LAMBDA p : /\ ~OpensReferences(d.paragraphs[p])
                         /\ InReferencesAfter(d, p)
                         /\ Strip(d.paragraphs[p].text) # << >>)

\* re.match(r'^\s*(\d+(?:\.\d+)?)[\.\s]', text): the digits at the head are
\* followed by a point or by whitespace (the optional part gives way)
HasNumberPrefix(text) ==
    LET n == DigitSpan(text)
    IN  n > 0 /\ Len(text) > n /\ (text[n + 1] = 46 \/ IsSpace(text[n + 1]))

\* int(float(num_match.group(1)))
NumberPrefix(text) == DigitsValue(Take(text, DigitSpan(text)))

\* re.search(r"\[\s*N\s*\]", text)
CitesReference(text, n) ==
    \E i \in 1..Len(text) :
        LET a == Drop(text, i)
            b == Drop(a, SpaceSpan(a))
            c == Drop(b, Len(Str(n)))
            e == Drop(c, SpaceSpan(c))
        IN  text[i] = 91 /\ StartsWith(b, Str(n)) /\ e # << >> /\ Head(e) = 93

\* if ref_num != i
ReferenceNumberWrong(ref_num, i) == ref_num # i

\* the body of the loop over enumerate(references_paragraphs, 1)
ReferenceIssues(d, i, p) ==
    LET para == d.paragraphs[p]
        text == Strip(para.text)
    IN  (IF para.numbered THEN << >>
         ELSE IF HasNumberPrefix(text)
         THEN IF ReferenceNumberWrong(NumberPrefix(text), i)
              THEN <<Issue("references", "wrong_number", <<i, p>>,
                           <<Take(text, 50), Str(NumberPrefix(text)), Str(i)>>)>>
              ELSE << >>
         ELSE IF ~(Contains(text, sHttp) \/ Contains(text, sElRes))
         THEN <<Issue("references", "missing_number", <<i, p>>, <<Take(text, 50), Str(i)>>)>>
         ELSE << >>)
        \o
        (IF /\ ~\E q \in 1..Len(d.paragraphs) : CitesReference(d.paragraphs[q].text, i)
            /\ Len(text) > 3
         THEN <<Issue("references", "no_citation", <<i, p>>, <<Str(i)>>)>>
         ELSE << >>)

\* validate_references
ReferencesIssues(d) ==
    LET refs == ReferencesParagraphs(d)
    IN  Concat([h \in 1..Len(required_headings) |->
                  IF HeadingFound(d, required_headings[h]) THEN << >>
                  ELSE <<Issue("references", "missing_section", << >>,
                               <<required_headings[h]>>)>>])
        \o Concat([i \in 1..Len(refs) |-> ReferenceIssues(d, i, refs[i])])

---------------------------------------------------------------------------
(* validate_appendices *)

\* paragraph.text.strip().startswith("Приложение ")
IsAppendixHeading(para) ==
    para.text # << >> /\ StartsWith(Strip(para.text), sPrilozhenie \o <<32>>)

\* group 1 of re.match(r'Приложение\s+([А-Я])', text) as <<letter>>, or << >>
AppendixLetter(text) ==
    LET a == AfterWordSpaces(text, sPrilozhenie)
    IN  IF a # << >> /\ a[1] # << >> /\ IsUpperCyr(Head(a[1]))
        THEN <<Head(a[1])>> ELSE << >>

\* letter in 'ЁЗЙОЧЬЫЪ'
IsExcludedLetter(c) == \E j \in 1..Len(sExcluded) : sExcluded[j] = c

\* the body of the first loop of validate_appendices for paragraph p
AppendixIssues(para, p) ==
    LET letter == AppendixLetter(Strip(para.text))
    IN  IF ~IsAppendixHeading(para) THEN << >>
        ELSE
          (IF para.alignment # "CENTER"
           THEN <<Issue("appendices", "not_centered", <<p>>, <<para.text>>)>> ELSE << >>)
          \o
          (IF letter = << >>
           THEN <<Issue("appendices", "invalid_designation", <<p>>, <<para.text>>)>>
           ELSE IF IsExcludedLetter(letter[1])
           THEN <<Issue("appendices", "disallowed_letter", <<p>>, <<letter>>)>>
           ELSE << >>)

\* re.search(r'приложени[еия]', p_text, re.IGNORECASE)
\* and not p_text.startswith("Приложение ")
MentionsAppendix(para) ==
    LET text == Strip(para.text)
        low == Lower(text)
    IN  /\ \E i \in 1..Len(low) :
             /\ StartsWith(Drop(low, i - 1), sPrilozheni)
             /\ Len(low) >= i + Len(sPrilozheni)
             /\ low[i + Len(sPrilozheni)] \in {1077, 1080, 1103}
        /\ ~StartsWith(text, sPrilozhenie \o <<32>>)

\* the body of the try block of validate_appendices
AppendicesBody(d) ==
    Concat([p \in 1..Len(d.paragraphs) |-> AppendixIssues(d.paragraphs[p], p)])
    \o
    (IF /\ \E p \in 1..Len(d.paragraphs) : IsAppendixHeading(d.paragraphs[p])
        /\ ~\E p \in 1..Len(d.paragraphs) : MentionsAppendix(d.paragraphs[p])
     THEN <<Issue("appendices", "no_reference", << >>, << >>)>>
     ELSE << >>)

\* a variant whose except clause appends nothing
AppendicesIssuesSilent(d) ==
    BeforeFault(d, "appendices", AppendicesBody(d))
\* validate_appendices: the except clause appends one issue
AppendicesIssues(d) ==
    BeforeFault(d, "appendices", AppendicesBody(d))
    \o (IF FailsIn(d, "appendices")
        THEN <<Issue("appendices", "error", << >>, << >>)>> ELSE << >>)

---------------------------------------------------------------------------
(* validate_all *)

\* a variant that calls validate_font before validate_page_format
CheckerOrderFontFirst ==
    <<"font", "page_format", "paragraphs", "headings", "page_numbering",
      "tables", "figures", "equations", "references", "appendices">>
\* the calls of validate_all, in order
CheckerOrder ==
    <<"page_format", "font", "paragraphs", "headings", "page_numbering",
      "tables", "figures", "equations", "references", "appendices">>

\* the position of a checker in the order of the calls
Rank(chk) == CHOOSE i \in 1..Len(CheckerOrder) : CheckerOrder[i] = chk

\* what follows checker chk in validate_all
AfterChecker(chk) ==
    IF Rank(chk) = Len(CheckerOrder) THEN "return" ELSE CheckerOrder[Rank(chk) + 1]

\* a variant that keeps the list of the pass before
KeepIssues(old) == old
\* self.issues = []
ResetIssues(old) == << >>

\* self.issues.append(...), for the issues of one checker in order
AppendIssues(old, new) == old \o new

\* the checkers with a try block around their body
Guarded == {"page_format", "page_numbering", "appendices"}

\* an exception leaves checker chk
Raises(d, chk) == FailsIn(d, chk) /\ chk \notin Guarded

(***************************************************************************)
(* The result text of DocValidator.validate_document: the line written     *)
(* before the pass, the issues of a returned list (or the line that the    *)
(* document conforms, when the list is empty), or the error line alone.    *)
(***************************************************************************)
Shown(kind, lines) == [kind |-> kind, lines |-> lines]

\* result_text.insert(END, "Начало проверки документа...")
StartShown == Shown("started", << >>)

\* if issues: one line per issue; else the line that the document conforms
IssuesShown(list) ==
    IF list # << >>
    THEN Shown("issues", [i \in 1..Len(list) |-> IssueString(list[i])])
    ELSE Shown("conforms", << >>)

\* a variant that shows the issues found before the exception
PartialShown(found) ==
    Shown("error", [i \in 1..Len(found) |-> IssueString(found[i])])
\* except Exception: result_text.delete(1.0, END), then the error line
ErrorShown(found) == Shown("error", << >>)

\* validate_all is called: the list is reset and the first checker is next
ValidateAll ==
    /\ pc = "idle"
    /\ Len(results) < MaxPasses
    /\ issues' = ResetIssues(issues)
    /\ trace' = << >>
    /\ pc' = CheckerOrder[1]
    /\ result_text' = StartShown
    /\ UNCHANGED <<doc, results>>

\* one checker runs to its end
RunChecker(chk, found) ==
    /\ pc = chk
    /\ ~Raises(doc, chk)
    /\ issues' = AppendIssues(issues, found)
    /\ trace' = Append(trace, chk)
    /\ pc' = AfterChecker(chk)
    /\ UNCHANGED <<doc, results, result_text>>

validate_page_format == RunChecker("page_format", PageFormatIssues(doc))
validate_font == RunChecker("font", FontIssues(doc))
validate_paragraphs == RunChecker("paragraphs", ParagraphsIssues(doc))
validate_headings == RunChecker("headings", HeadingsIssues(doc))
validate_page_numbering == RunChecker("page_numbering", PageNumberingIssues(doc))
validate_tables == RunChecker("tables", TablesIssues(doc))
validate_figures == RunChecker("figures", FiguresIssues(doc))
validate_equations == RunChecker("equations", EquationsIssues(doc))
validate_references == RunChecker("references", ReferencesIssues(doc))
validate_appendices == RunChecker("appendices", AppendicesIssues(doc))

\* return self.issues, which validate_document shows
Return ==
    /\ pc = "return"
    /\ results' = Append(results, issues)
    /\ result_text' = IssuesShown(issues)
    /\ pc' = "idle"
    /\ UNCHANGED <<doc, issues, trace>>

\* what the body of checker chk appends when nothing fails
CheckerIssues(chk, d) ==
    CASE chk = "page_format" -> PageFormatLoop(d).out
      [] chk = "font" -> FontIssues(d)
      [] chk = "paragraphs" -> ParagraphsIssues(d)
      [] chk = "headings" -> HeadingsIssues(d)
      [] chk = "page_numbering" -> PageNumberingBody(d)
      [] chk = "tables" -> TablesIssues(d)
      [] chk = "figures" -> FiguresIssues(d)
      [] chk = "equations" -> EquationsIssues(d)
      [] chk = "references" -> ReferencesIssues(d)
      [] chk = "appendices" -> AppendicesBody(d)

\* a checker without try block fails: the exception leaves validate_all,
\* which neither runs the checkers that follow nor returns
Propagate ==
    /\ pc \in {CheckerOrder[i] : i \in 1..Len(CheckerOrder)}
    /\ Raises(doc, pc)
    /\ issues' = AppendIssues(issues, BeforeFault(doc, pc, CheckerIssues(pc, doc)))
    /\ pc' = "raised"
    /\ UNCHANGED <<doc, trace, results, result_text>>

\* validate_document catches the exception of validate_all
ShowError ==
    /\ pc = "raised"
    /\ result_text' = ErrorShown(issues)
    /\ pc' = "idle"
    /\ UNCHANGED <<doc, issues, trace, results>>

Next ==
    \/ ValidateAll
    \/ validate_page_format
    \/ validate_font
    \/ validate_paragraphs
    \/ validate_headings
    \/ validate_page_numbering
    \/ validate_tables
    \/ validate_figures
    \/ validate_equations
    \/ validate_references
    \/ validate_appendices
    \/ Return

\* the pass over a document whose reading may fail
NextFaulty ==
    \/ Next
    \/ Propagate
    \/ ShowError

\* the state after DocumentValidator(doc_path), for a document d
InitWith(d) ==
    /\ doc = d
    /\ pc = "idle"
    /\ issues = << >>
    /\ trace = << >>
    /\ results = << >>
    /\ result_text = Shown("empty", << >>)

---------------------------------------------------------------------------
(* The documents the checks draw *)

\* the sequences over S of length lo..hi
SeqsFromTo(S, lo, hi) == UNION {[1..k -> S] : k \in lo..hi}

\* "Текст"
tText == <<1058, 1077, 1082, 1089, 1090>>
\* "Ab"
tAb == <<65, 98>>
\* "  "
tBlank == <<32, 32>>
\* "Arial"
tArial == <<65, 114, 105, 97, 108>>
\* "Таблица 1 - X"
tTable1X == <<1058, 1072, 1073, 1083, 1080, 1094, 1072, 32, 49, 32, 45, 32, 88>>
\* "Таблица 3 - Y"
tTable3Y == <<1058, 1072, 1073, 1083, 1080, 1094, 1072, 32, 51, 32, 45, 32, 89>>
\* "Таблица 2"
tTable2 == <<1058, 1072, 1073, 1083, 1080, 1094, 1072, 32, 50>>
\* "Таблица 01 - Z"
tTable01 == <<1058, 1072, 1073, 1083, 1080, 1094, 1072, 32, 48, 49, 32, 45, 32, 90>>
\* "Таблица А - X"
tTableA == <<1058, 1072, 1073, 1083, 1080, 1094, 1072, 32, 1040, 32, 45, 32, 88>>
\* "Продолжение таблицы Б"
tContB == <<1055, 1088, 1086, 1076, 1086, 1083, 1078, 1077, 1085, 1080, 1077, 32, 1090, 1072, 1073, 1083, 1080, 1094, 1099, 32, 1041>>
\* "Продолжение таблицы 1"
tCont1 == <<1055, 1088, 1086, 1076, 1086, 1083, 1078, 1077, 1085, 1080, 1077, 32, 1090, 1072, 1073, 1083, 1080, 1094, 1099, 32, 49>>
\* "В таблице 1 показано"
tSeeTable1 == <<1042, 32, 1090, 1072, 1073, 1083, 1080, 1094, 1077, 32, 49, 32, 1087, 1086, 1082, 1072, 1079, 1072, 1085, 1086>>
\* "см. таблицу 3"
tSeeTable3 == <<1089, 1084, 46, 32, 1090, 1072, 1073, 1083, 1080, 1094, 1091, 32, 51>>
\* "см. таблицу 12"
tSeeTable12 == <<1089, 1084, 46, 32, 1090, 1072, 1073, 1083, 1080, 1094, 1091, 32, 49, 50>>
\* "Рисунок 1 - Схема"
tFigure1 == <<1056, 1080, 1089, 1091, 1085, 1086, 1082, 32, 49, 32, 45, 32, 1057, 1093, 1077, 1084, 1072>>
\* "Рисунок 2 - Граф"
tFigure2 == <<1056, 1080, 1089, 1091, 1085, 1086, 1082, 32, 50, 32, 45, 32, 1043, 1088, 1072, 1092>>
\* "см. рисунок 1"
tSeeFigure1 == <<1089, 1084, 46, 32, 1088, 1080, 1089, 1091, 1085, 1086, 1082, 32, 49>>
\* "схема рисунка 2"
tSeeFigure2 == <<1089, 1093, 1077, 1084, 1072, 32, 1088, 1080, 1089, 1091, 1085, 1082, 1072, 32, 50>>
\* "см. рисунок 12"
tSeeFigure12 == <<1089, 1084, 46, 32, 1088, 1080, 1089, 1091, 1085, 1086, 1082, 32, 49, 50>>
\* "1. Источник"
tRef1 == <<49, 46, 32, 1048, 1089, 1090, 1086, 1095, 1085, 1080, 1082>>
\* "3. Источник"
tRef3 == <<51, 46, 32, 1048, 1089, 1090, 1086, 1095, 1085, 1080, 1082>>
\* "Текст [1]"
tCite1 == <<1058, 1077, 1082, 1089, 1090, 32, 91, 49, 93>>
\* "ПРИЛОЖЕНИЕ А"
tAppendixUp == <<1055, 1056, 1048, 1051, 1054, 1046, 1045, 1053, 1048, 1045, 32, 1040>>
\* "Приложение 1"
tAppendix1 == <<1055, 1088, 1080, 1083, 1086, 1078, 1077, 1085, 1080, 1077, 32, 49>>
\* "см. приложение А"
tSeeAppendix == <<1089, 1084, 46, 32, 1087, 1088, 1080, 1083, 1086, 1078, 1077, 1085, 1080, 1077, 32, 1040>>

\* a body paragraph of the given text, alignment unspecified
Body(text) == Para(text, "NONE")

(* Sections: every dimension at the edge of its tolerance band, one EMU    *)
(* outside it, or missing.                                                 *)
SectionCands ==
    {Section(w, h, l, r, t, b, << >>) :
        w \in {Some(a4_width - Mm(1)), Some(a4_width + Mm(1) + 1)},
        h \in {Some(a4_height + Mm(1)), Some(a4_height - Mm(1) - 1)},
        l \in {Some(left_margin_required + Mm(1)),
               Some(left_margin_required + Mm(1) + 1), None},
        r \in {Some(right_margin_required - Mm(1)),
               Some(right_margin_alternative + Mm(1)),
               Some(right_margin_alternative + Mm(1) + 1)},
        t \in {Some(top_margin_required - Mm(1)),
               Some(top_margin_required - Mm(1) - 1)},
        b \in {Some(bottom_margin_required + Mm(1)),
               Some(bottom_margin_required + Mm(1) + 1)}}

\* the sections a document may hold after its first
LaterSectionCands ==
    {GoodSection,
     Section(Some(a4_width + Mm(1) + 1), Some(a4_height - Mm(1) - 1), Some(Mm(30)),
             Some(Mm(15)), Some(Mm(20)), Some(Mm(20) + Mm(1) + 1), << >>),
     Section(Some(Mm(210)), Some(Mm(297)), None, Some(Mm(15)), Some(Mm(20)),
             Some(Mm(20)), << >>)}

PageDocs ==
    {Document(<<s>> \o rest, <<Body(tText)>>, FALSE) :
        s \in SectionCands, rest \in SeqsFromTo(LaterSectionCands, 0, MaxSections - 1)}

(* Runs: Times New Roman, another font or none; 14, 12, 11.5, 10 pt or no  *)
(* size; visible or blank text.                                            *)
RunCands ==
    {Run(sTimes, Some(28), tAb), Run(sTimes, Some(24), tAb), Run(sTimes, Some(20), tAb),
     Run(tArial, None, tAb), Run(tArial, Some(23), tAb), Run(None, None, tAb),
     Run(None, Some(20), tAb), Run(tArial, Some(20), tBlank)}

\* a paragraph made of runs: its text is the text of its runs
RunsPara(runs) ==
    [Para(Concat([r \in 1..Len(runs) |-> runs[r].text]), "NONE") EXCEPT !.runs = runs]

\* the paragraphs a document may hold after its first
LaterFontParas ==
    {RunsPara(<<Run(tArial, Some(20), tAb)>>), RunsPara(<<Run(tArial, Some(20), tBlank)>>),
     RunsPara(<<Run(sTimes, Some(24), tAb)>>)}

FontDocs ==
    {Document(<<GoodSection>>, <<RunsPara(runs)>> \o rest, FALSE) :
        runs \in SeqsFromTo(RunCands, 0, MaxRuns),
        rest \in SeqsFromTo(LaterFontParas, 0, MaxParas - 1)}

TableParas ==
    {Body(tTable1X), Body(tTable3Y), Body(tTable2), Body(tTable01),
     Para(tCont1, "RIGHT"), Body(tSeeTable1), Body(tSeeTable3), Body(tSeeTable12),
     Body(tText)}

TableDocs ==
    {Document(<<GoodSection>>, ps, t) :
        ps \in SeqsFromTo(TableParas, 1, MaxParas), t \in BOOLEAN}

\* captions with a letter in the place of the number, among sound ones
MalformedTableParas ==
    {Body(tTableA), Para(tContB, "RIGHT"), Body(tTable1X), Body(tSeeTable1)}

MalformedTableDocs ==
    {Document(<<GoodSection>>, ps, TRUE) :
        ps \in SeqsFromTo(MalformedTableParas, 1, MaxParas)}

FigureParas ==
    {Body(tFigure1), Body(tFigure2), Para(tFigure1, "LEFT"), Body(tSeeFigure1),
     Body(tSeeFigure2), Body(tSeeFigure12), Body(tText)}

FigureDocs ==
    {Document(<<GoodSection>>, ps, FALSE) : ps \in SeqsFromTo(FigureParas, 1, MaxParas)}

ReferenceParas ==
    {Body(sSpisokIst), Body(tRef1), Body(tRef3), Body(tCite1), Body(tAppendixUp),
     [Body(tRef3) EXCEPT !.numbered = TRUE], Body(tBlank)}

\* the documents of at most n paragraphs around a list of references
ReferenceDocsUpTo(n) ==
    {Document(<<GoodSection>>, ps, FALSE) : ps \in SeqsFromTo(ReferenceParas, 1, n)}

ReferenceDocs == ReferenceDocsUpTo(MaxRefParas)

\* "Приложение " and one letter, centred
AppendixPara(letter) == Para(sPrilozhenie \o <<32, letter>>, "CENTER")

AppendixParas ==
    {AppendixPara(sExcluded[j]) : j \in 1..Len(sExcluded)}
    \cup {AppendixPara(1040), Para(tAppendix1, "CENTER"), Body(tSeeAppendix)}

AppendixDocs ==
    {Document(<<GoodSection>>, ps, FALSE) : ps \in SeqsFromTo(AppendixParas, 1, MaxParas)}

\* a document d in which the body of checker chk fails after `after` issues
WithFault(d, chk, after) == [d EXCEPT !.fault = <<[chk |-> chk, after |-> after]>>]

FaultSections ==
    {GoodSection,
     Section(Some(a4_width + Mm(1) + 1), Some(Mm(297)), None, Some(Mm(15)),
             Some(Mm(20)), Some(Mm(20)), << >>)}

FaultParas ==
    {RunsPara(<<Run(tArial, Some(20), tAb)>>), AppendixPara(1047), Body(tText)}

\* documents that are read without failure
SoundDocs ==
    {Document(<<s>>, ps, FALSE) :
        s \in FaultSections, ps \in SeqsFromTo(FaultParas, 1, 2)}

\* the same documents, and each with a failure in one checker
FaultDocs ==
    SoundDocs
    \cup {WithFault(d, CheckerOrder[c], after) :
            d \in SoundDocs, c \in 1..Len(CheckerOrder), after \in 0..MaxFaultAfter}

\* "1"
tOne == <<49>>

(* Footers: none, a centred or a left-aligned page number, a paragraph     *)
(* that holds only a page-number field, a blank paragraph.                 *)
FooterCands ==
    {<< >>, <<FooterPara(tOne, "CENTER", FALSE)>>, <<FooterPara(tOne, "LEFT", FALSE)>>,
     <<FooterPara(<< >>, "NONE", TRUE)>>, <<FooterPara(tBlank, "NONE", FALSE)>>,
     <<FooterPara(<< >>, "NONE", TRUE), FooterPara(tOne, "RIGHT", FALSE)>>}

\* a conforming section with the given footer
FooterSection(footer) == [GoodSection EXCEPT !.footer = footer]

NumberingDocs ==
    {Document([k \in 1..Len(fs) |-> FooterSection(fs[k])], <<para>>, FALSE) :
        fs \in SeqsFromTo(FooterCands, 1, MaxFooterSections),
        para \in {Body(tText), [Body(tText) EXCEPT !.field = TRUE]}}

\* "0 Раздел"
tHead0 == <<48, 32, 1056, 1072, 1079, 1076, 1077, 1083>>
\* "1 Раздел"
tHead1 == <<49, 32, 1056, 1072, 1079, 1076, 1077, 1083>>
\* "2 Раздел."
tHead2Dot == <<50, 32, 1056, 1072, 1079, 1076, 1077, 1083, 46>>
\* "0.1 Пункт"
tHead01 == <<48, 46, 49, 32, 1055, 1091, 1085, 1082, 1090>>
\* "1.1 Пункт"
tHead11 == <<49, 46, 49, 32, 1055, 1091, 1085, 1082, 1090>>
\* "0.1.1 Подпункт"
tHead011 == <<48, 46, 49, 46, 49, 32, 1055, 1086, 1076, 1087, 1091, 1085, 1082, 1090>>
\* "1.0.1 Подпункт"
tHead101 == <<49, 46, 48, 46, 49, 32, 1055, 1086, 1076, 1087, 1091, 1085, 1082, 1090>>
\* "Введение"
tIntro == <<1042, 1074, 1077, 1076, 1077, 1085, 1080, 1077>>

(* Headings: numbered of level 1, 2 and 3 with a leading number 0 or not,  *)
(* one that ends with a period, a named one, and body text.                *)
HeadingParas ==
    {Body(tHead0), Body(tHead1), Body(tHead2Dot), Body(tHead01), Body(tHead11),
     Body(tHead011), Body(tHead101), Para(tIntro, "LEFT"), Body(tText)}

HeadingDocs ==
    {Document(<<GoodSection>>, ps, FALSE) : ps \in SeqsFromTo(HeadingParas, 1, MaxParas)}

\* "термины и определения, введение"
tMixed == <<1090, 1077, 1088, 1084, 1080, 1085, 1099, 32, 1080, 32, 1086, 1087, 1088, 1077, 1076, 1077, 1083, 1077, 1085, 1080, 1103, 44, 32, 1074, 1074, 1077, 1076, 1077, 1085, 1080, 1077>>

\* body text that satisfies the indent (1.25 cm) and spacing (1.5) rules
GoodPara == [Para(tText, "JUSTIFY") EXCEPT !.firstLine = Some(709), !.line = Some(360)]

(* Paragraphs around the terms and abbreviations sections: the headings    *)
(* that open them, a heading that closes them, a sentence that names two   *)
(* sections, and body text that breaks every, some or no rule.             *)
ContextParas ==
    {Body(sTerminy), Body(sSpisokSokrFull), Para(sSpisokSokrAlt, "LEFT"), Body(sVvedenie),
     Para(tMixed, "LEFT"), Para(tText, "LEFT"), Body(tText), GoodPara, Body(tBlank)}

ContextDocs ==
    {Document(<<GoodSection>>, ps, FALSE) : ps \in SeqsFromTo(ContextParas, 1, MaxParas)}

\* the documents of the families without their longest documents, those
\* drawn for the fonts with one paragraph
Init == \E d \in {f \in FontDocs : Len(f.paragraphs) = 1}
                 \cup {t \in PageDocs \cup TableDocs \cup FigureDocs \cup AppendixDocs
                             \cup ReferenceDocsUpTo(MaxParas) :
                          Len(t.paragraphs) < MaxParas} :
            InitWith(d)
InitPage == \E d \in PageDocs : InitWith(d)
InitFont == \E d \in FontDocs : InitWith(d)
InitTables == \E d \in TableDocs : InitWith(d)
InitMalformed == \E d \in MalformedTableDocs : InitWith(d)
InitFigures == \E d \in FigureDocs : InitWith(d)
InitReferences == \E d \in ReferenceDocs : InitWith(d)
InitAppendices == \E d \in AppendixDocs : InitWith(d)
InitFaults == \E d \in FaultDocs : InitWith(d)
InitNumbering == \E d \in NumberingDocs : InitWith(d)
InitHeadings == \E d \in HeadingDocs : InitWith(d)
InitContext == \E d \in ContextDocs : InitWith(d)

Spec == Init /\ [][Next]_vars
SpecPage == InitPage /\ [][Next]_vars
SpecFont == InitFont /\ [][Next]_vars
SpecTables == InitTables /\ [][Next]_vars
SpecMalformed == InitMalformed /\ [][Next]_vars
SpecFigures == InitFigures /\ [][Next]_vars
SpecReferences == InitReferences /\ [][Next]_vars
SpecAppendices == InitAppendices /\ [][Next]_vars
SpecFaults == InitFaults /\ [][NextFaulty]_vars
SpecNumbering == InitNumbering /\ [][Next]_vars
SpecHeadings == InitHeadings /\ [][Next]_vars
SpecContext == InitContext /\ [][Next]_vars

---------------------------------------------------------------------------
(* Vocabulary of the properties *)

\* checker chk has run to its end in the current pass
Done(chk) == \E j \in 1..Len(trace) : trace[j] = chk

\* the number of issues of a kind in self.issues
CountKind(chk, kind) ==
    Cardinality({j \in 1..Len(issues) : issues[j].chk = chk /\ issues[j].kind = kind})

\* the number of issues of a kind found at a place
CountAt(chk, kind, at) ==
    Cardinality({j \in 1..Len(issues) :
                    issues[j].chk = chk /\ issues[j].kind = kind /\ issues[j].at = at})

\* the number of issues a checker found at a place
CountAllAt(chk, at) ==
    Cardinality({j \in 1..Len(issues) : issues[j].chk = chk /\ issues[j].at = at})

\* the number of issues of a checker
CountOf(chk) == Cardinality({j \in 1..Len(issues) : issues[j].chk = chk})

---------------------------------------------------------------------------
(* C1 *)

(* C1: two validate_all calls in succession on one DocumentValidator over  *)
(* the same document return equal ordered issue lists, and every pass      *)
(* starts its first checker on an empty list.                              *)
C1_SamePassTwice ==
    /\ \A i, j \in 1..Len(results) : results[i] = results[j]
    /\ (pc = "page_format" => issues = << >>)

\* two passes have returned, with issues of several checkers in the list
C1_Witness ==
    /\ Len(results) = 2
    /\ Len(results[1]) >= 3
    /\ \E i, j \in 1..Len(results[1]) : results[1][i].chk # results[1][j].chk

---------------------------------------------------------------------------
(* C2 *)

\* the order the claim states
C2_FixedOrder ==
    <<"page_format", "font", "paragraphs", "headings", "page_numbering",
      "tables", "figures", "equations", "references", "appendices">>

C2_Position(chk) == CHOOSE i \in 1..Len(C2_FixedOrder) : C2_FixedOrder[i] = chk

\* the checkers run so far are the first of the fixed order, all ten at the
\* return, and no issue of a later checker precedes one of an earlier checker
C2_Ordered ==
    /\ IsPrefix(trace, C2_FixedOrder)
    /\ (pc = "return" => trace = C2_FixedOrder)
    /\ \A i, j \in 1..Len(issues) :
          i < j => C2_Position(issues[i].chk) <= C2_Position(issues[j].chk)
    /\ \A r \in 1..Len(results) : \A i, j \in 1..Len(results[r]) :
          i < j => C2_Position(results[r][i].chk) <= C2_Position(results[r][j].chk)

\* a step of a checker keeps every entry of the list where it is
C2_AppendOnly == pc \notin {"idle", "return"} => IsPrefix(issues, issues')

(* C2: validate_all runs the ten checkers once each in the fixed order,    *)
(* every checker only appends to the issue list, and in the returned list  *)
(* the issues of an earlier checker precede those of a later one.          *)
C2_FixedOrderAppendOnly == [](C2_Ordered) /\ [][C2_AppendOnly]_vars

\* a pass is at its return with issues of at least three checkers
C2_Witness ==
    /\ pc = "return"
    /\ \E i, j, k \in 1..Len(issues) :
          /\ issues[i].chk # issues[j].chk
          /\ issues[j].chk # issues[k].chk
          /\ issues[i].chk # issues[k].chk

---------------------------------------------------------------------------
(* C3 *)

\* a dimension is present and within 1 mm of mm millimetres, bounds included
C3_Within(v, mm) == v # None /\ Abs(v[1] - mm * 36000) <= 36000

C3_SectionInBand(s) ==
    /\ C3_Within(s.page_width, 210)
    /\ C3_Within(s.page_height, 297)
    /\ C3_Within(s.left_margin, 30)
    /\ (C3_Within(s.right_margin, 15) \/ C3_Within(s.right_margin, 10))
    /\ C3_Within(s.top_margin, 20)
    /\ C3_Within(s.bottom_margin, 20)

(* C3: when every section has its page size and margins within 1 mm of    *)
(* A4 and of 30/15 (or 10)/20/20 mm, bounds included, validate_page_format *)
(* appends no issue.                                                       *)
C3_NoIssueInBand ==
    (Done("page_format") /\ \A k \in 1..Len(doc.sections) : C3_SectionInBand(doc.sections[k]))
        => CountOf("page_format") = 0

\* the checker has run on sections that lie in the band, one of them with
\* every dimension exactly 1 mm off and the right margin near 10 mm
C3_Witness ==
    /\ Done("page_format")
    /\ \A k \in 1..Len(doc.sections) : C3_SectionInBand(doc.sections[k])
    /\ \E k \in 1..Len(doc.sections) :
          LET s == doc.sections[k]
          IN  /\ Abs(s.page_width[1] - 210 * 36000) = 36000
              /\ Abs(s.page_height[1] - 297 * 36000) = 36000
              /\ Abs(s.left_margin[1] - 30 * 36000) = 36000
              /\ Abs(s.right_margin[1] - 10 * 36000) = 36000
              /\ Abs(s.top_margin[1] - 20 * 36000) = 36000
              /\ Abs(s.bottom_margin[1] - 20 * 36000) = 36000

---------------------------------------------------------------------------
(* C4 *)

\* 1 when a present dimension is more than 1 mm from mm millimetres, else 0
C4_Off(v, mm) == IF Abs(v[1] - mm * 36000) > 36000 THEN 1 ELSE 0

C4_RightOff(v) == IF C4_Off(v, 15) = 1 /\ C4_Off(v, 10) = 1 THEN 1 ELSE 0

\* the margins of a section that are violated
C4_MarginsOff(s) ==
    C4_Off(s.left_margin, 30) + C4_RightOff(s.right_margin)
    + C4_Off(s.top_margin, 20) + C4_Off(s.bottom_margin, 20)

\* every dimension of every section is present
C4_AllPresent ==
    \A k \in 1..Len(doc.sections) :
        LET s == doc.sections[k]
        IN  /\ s.page_width # None /\ s.page_height # None
            /\ s.left_margin # None /\ s.right_margin # None
            /\ s.top_margin # None /\ s.bottom_margin # None

(* C4 as stated: for every section the number of issues of                 *)
(* validate_page_format equals the number of violated dimensions among the *)
(* six, each violated dimension producing an issue of its own.             *)
C4_OneIssuePerDimension ==
    (Done("page_format") /\ C4_AllPresent) =>
        \A k \in 1..Len(doc.sections) :
            LET s == doc.sections[k]
            IN  CountAllAt("page_format", <<k>>) =
                    C4_Off(s.page_width, 210) + C4_Off(s.page_height, 297)
                    + C4_MarginsOff(s)

(* C4 amended: for every section of a document whose dimensions are all    *)
(* present, the number of issues equals the number of violated margins,    *)
(* plus one when the page width or the page height (or both) is violated:  *)
(* width and height share one page-size issue.                             *)
C4_OneIssuePerMarginAndPageSize ==
    (Done("page_format") /\ C4_AllPresent) =>
        \A k \in 1..Len(doc.sections) :
            LET s == doc.sections[k]
                page == IF C4_Off(s.page_width, 210) = 1 \/ C4_Off(s.page_height, 297) = 1
                        THEN 1 ELSE 0
            IN  /\ CountAt("page_format", "page_size", <<k>>) = page
                /\ CountAt("page_format", "left_margin", <<k>>) = C4_Off(s.left_margin, 30)
                /\ CountAt("page_format", "right_margin", <<k>>) = C4_RightOff(s.right_margin)
                /\ CountAt("page_format", "top_margin", <<k>>) = C4_Off(s.top_margin, 20)
                /\ CountAt("page_format", "bottom_margin", <<k>>) = C4_Off(s.bottom_margin, 20)
                /\ CountAllAt("page_format", <<k>>) = page + C4_MarginsOff(s)

\* the checker has run on a section whose width and height are both
\* violated, with two margins violated as well, and a second section
C4_Witness ==
    /\ Done("page_format") /\ C4_AllPresent
    /\ Len(doc.sections) = 2
    /\ LET s == doc.sections[1]
       IN  /\ C4_Off(s.page_width, 210) = 1 /\ C4_Off(s.page_height, 297) = 1
           /\ C4_MarginsOff(s) = 2
           /\ CountAllAt("page_format", <<1>>) = 3
    /\ CountAllAt("page_format", <<2>>) = 2

---------------------------------------------------------------------------
(* C5 *)

\* the paragraphs with non-blank text
C5_NonBlank(p) == Strip(doc.paragraphs[p].text) # << >>

\* what the claim states of the sizes, of fonts named Times New Roman and of
\* blank paragraphs
C5_SizeAndBlank ==
    \A p \in 1..Len(doc.paragraphs) :
        LET runs == doc.paragraphs[p].runs
        IN  IF C5_NonBlank(p)
            THEN \A r \in 1..Len(runs) :
                   /\ (Contains(runs[r].name, sTimes) /\ runs[r].size # None
                         /\ runs[r].size[1] >= 24)
                        => CountAllAt("font", <<p, r>>) = 0
                   /\ (runs[r].size # None /\ runs[r].size[1] < 24)
                        => CountAt("font", "font_size", <<p, r>>) = 1
            ELSE \A r \in 1..Len(runs) : CountAllAt("font", <<p, r>>) = 0

(* C5 as stated: in a non-blank paragraph a Times New Roman run of at      *)
(* least 12 pt gives no issue, a run of a specified size below 12 pt one   *)
(* size issue, a run whose font name does not contain 'Times New Roman'    *)
(* one font issue; blank paragraphs give none.                             *)
C5_FontIssuePerRun ==
    Done("font") =>
        /\ C5_SizeAndBlank
        /\ \A p \in 1..Len(doc.paragraphs) : \A r \in 1..Len(doc.paragraphs[p].runs) :
              (C5_NonBlank(p) /\ ~Contains(doc.paragraphs[p].runs[r].name, sTimes))
                  => CountAt("font", "font_name", <<p, r>>) = 1

(* C5 amended: the font issue is for a run whose font name is specified    *)
(* (not empty) and does not contain 'Times New Roman'; a run with no font  *)
(* name of its own gives no font issue. The rest is as stated.             *)
C5_FontIssuePerNamedRun ==
    Done("font") =>
        /\ C5_SizeAndBlank
        /\ \A p \in 1..Len(doc.paragraphs) : \A r \in 1..Len(doc.paragraphs[p].runs) :
              C5_NonBlank(p) =>
                  CountAt("font", "font_name", <<p, r>>) =
                      IF doc.paragraphs[p].runs[r].name # << >>
                         /\ ~Contains(doc.paragraphs[p].runs[r].name, sTimes)
                      THEN 1 ELSE 0

\* the checker has run on a paragraph with a run of no font name and an
\* Arial run of 10 pt, and on a blank paragraph with an Arial run of 10 pt
C5_Witness ==
    /\ Done("font")
    /\ Len(doc.paragraphs) >= 2
    /\ C5_NonBlank(1) /\ Len(doc.paragraphs[1].runs) = 2
    /\ doc.paragraphs[1].runs[1].name = << >>
    /\ doc.paragraphs[1].runs[2].name = tArial
    /\ doc.paragraphs[1].runs[2].size = Some(20)
    /\ CountAllAt("font", <<1, 1>>) = 0
    /\ CountAllAt("font", <<1, 2>>) = 2
    /\ ~C5_NonBlank(2)
    /\ doc.paragraphs[2].runs = <<Run(tArial, Some(20), tBlank)>>

---------------------------------------------------------------------------
(* C6 *)

\* the table numbers parsed from the main and continuation captions
C6_Observed == {TableCaptions(doc)[j].num : j \in 1..Len(TableCaptions(doc))}

\* the 1-based position of a value in the sorted sequence of distinct values
C6_Position(v) == 1 + Cardinality({u \in C6_Observed : u < v})

\* one sequence issue, naming the position, for each observed value that
\* differs from its position, and none for the others
C6_Positional ==
    /\ \A v \in C6_Observed :
          /\ CountAt("tables", "sequence", <<v>>) = IF v # C6_Position(v) THEN 1 ELSE 0
          /\ \A j \in 1..Len(issues) :
                (issues[j].chk = "tables" /\ issues[j].kind = "sequence"
                   /\ issues[j].at = <<v>>)
                    => issues[j].args = <<Str(v), Str(C6_Position(v))>>
    /\ CountKind("tables", "sequence")
          = Cardinality({v \in C6_Observed : v # C6_Position(v)})

(* C6 as stated: validate_tables emits exactly one sequence issue for each *)
(* observed table number that differs from its 1-based position in the     *)
(* sorted distinct numbers, naming the position, and none for the others.  *)
C6_SequenceByPosition == Done("tables") => C6_Positional

(* C6 amended: the same, for a document that holds at least one table;     *)
(* for a document without tables validate_tables returns at once and       *)
(* emits nothing, whatever its captions are.                               *)
C6_SequenceByPositionWithTables ==
    Done("tables") =>
        IF doc.has_tables THEN C6_Positional ELSE CountOf("tables") = 0

\* the checker has run on a document with tables captioned 1 and 3: one
\* sequence issue, for value 3 with expected number 2
C6_Witness ==
    /\ Done("tables") /\ doc.has_tables
    /\ C6_Observed = {1, 3}
    /\ \E p, q \in 1..Len(doc.paragraphs) :
          doc.paragraphs[p].text = tTable1X /\ doc.paragraphs[q].text = tTable3Y
    /\ CountKind("tables", "sequence") = 1
    /\ \E j \in 1..Len(issues) :
          /\ issues[j].chk = "tables" /\ issues[j].kind = "sequence"
          /\ issues[j].args = <<(<<51>>), (<<50>>)>>

---------------------------------------------------------------------------
(* C7 *)

\* paragraph p is a main or continuation caption of table n
C7_OwnCaption(p, n) ==
    \E j \in 1..Len(TableCaptions(doc)) :
        TableCaptions(doc)[j].p = p /\ TableCaptions(doc)[j].num = n

\* a paragraph other than the captions of table n mentions table n
C7_MentionedInBody(n) ==
    \E p \in 1..Len(doc.paragraphs) :
        ~C7_OwnCaption(p, n) /\ MentionsTable(doc.paragraphs[p].text, n)

(* C7: in a document with tables, for every collected table number N one   *)
(* 'no in-text reference' issue is emitted when no paragraph other than    *)
(* the captions of table N mentions table N, and none when one does.       *)
C7_NoReferenceOutsideCaptions ==
    (Done("tables") /\ doc.has_tables) =>
        \A j \in 1..Len(TableCaptions(doc)) :
            LET n == TableCaptions(doc)[j].num
            IN  CountAt("tables", "no_reference", <<n>>) =
                    IF C7_MentionedInBody(n) THEN 0 ELSE 1

---------------------------------------------------------------------------
(* C8 *)

\* paragraph p is a figure caption
C8_IsCaption(p) ==
    \E i \in 1..Len(FigureCaptionParagraphs(doc)) : FigureCaptionParagraphs(doc)[i] = p

\* a paragraph other than the figure captions mentions figure i
C8_MentionedInBody(i) ==
    \E p \in 1..Len(doc.paragraphs) :
        ~C8_IsCaption(p) /\ MentionsFigure(doc.paragraphs[p].text, i)

(* C8: for the i-th figure caption, when no paragraph other than the       *)
(* figure captions mentions figure i, exactly one 'no in-text reference'   *)
(* issue is emitted for figure i.                                          *)
C8_NoReferenceOutsideCaptions ==
    Done("figures") =>
        \A i \in 1..Len(FigureCaptionParagraphs(doc)) :
            ~C8_MentionedInBody(i) => CountAt("figures", "no_reference", <<i>>) = 1

---------------------------------------------------------------------------
(* C9 *)

\* paragraph p holds the heading text of the list of references
C9_IsHeading(p) == OpensReferences(doc.paragraphs[p])

\* paragraph p is an Appendix, Abbreviations or Terms heading
C9_IsTerminator(p) == ~C9_IsHeading(p) /\ ClosesReferences(doc.paragraphs[p])

\* paragraph p lies after heading h with no terminator from h to p, and is
\* itself non-blank and no heading line
C9_EntryOf(h, p) ==
    /\ h < p
    /\ \A q \in (h + 1)..p : ~C9_IsTerminator(q)
    /\ ~C9_IsHeading(p)
    /\ Strip(doc.paragraphs[p].text) # << >>

\* the first paragraph that holds the heading text; 0 when there is none
C9_FirstHeading ==
    LET hs == {h \in 1..Len(doc.paragraphs) : C9_IsHeading(h)}
    IN  IF hs = {} THEN 0 ELSE CHOOSE h \in hs : \A g \in hs : h <= g

\* the last paragraph before p that holds the heading text; 0 when none
C9_NearestHeading(p) ==
    LET hs == {h \in 1..(p - 1) : C9_IsHeading(h)}
    IN  IF hs = {} THEN 0 ELSE CHOOSE h \in hs : \A g \in hs : g <= h

\* the expected numbers of the wrong-number issues emitted for paragraph p
C9_Observed(p) ==
    LET found == SelectSeq(issues, LAMBDA i : /\ i.chk = "references"
                                              /\ i.kind = "wrong_number"
                                              /\ i.at[2] = p)
    IN  [j \in 1..Len(found) |-> found[j].args[3]]

\* what the claim states for paragraph p, an entry or not, at position pos
C9_Expected(p, entry, pos) ==
    LET text == Strip(doc.paragraphs[p].text)
    IN  IF ~entry THEN << >>
        ELSE IF doc.paragraphs[p].numbered \/ DigitSpan(text) = 0 THEN C9_Observed(p)
        ELSE IF DigitsValue(Take(text, DigitSpan(text))) # pos THEN <<Str(pos)>>
        ELSE << >>

\* the section runs from the first heading line to the next terminator
C9_ExpectedFromFirst(p) ==
    LET h == C9_FirstHeading
    IN  C9_Expected(p, h # 0 /\ C9_EntryOf(h, p),
                    Cardinality({q \in 1..p : C9_EntryOf(h, q)}))

\* the section of an entry runs from the heading line nearest before it
C9_ExpectedFromNearest(p) ==
    LET h == C9_NearestHeading(p)
    IN  C9_Expected(p, h # 0 /\ C9_EntryOf(h, p),
                    Cardinality({q \in 1..p : C9_NearestHeading(q) = h /\ C9_EntryOf(h, q)}))

(* C9: the reference entries are the non-blank paragraphs between the      *)
(* heading of the list of references and the next Appendix, Abbreviations  *)
(* or Terms heading; for an entry without list numbering whose text begins *)
(* with an integer k, one 'wrong number' issue naming the entry's position *)
(* i within the section is emitted when k differs from i, none otherwise,  *)
(* and none for a paragraph that is no entry.  When several paragraphs     *)
(* hold the heading text, 'the heading' is read as the first of them or as *)
(* the one nearest before the entry: the statement is taken to hold when   *)
(* it holds under either reading.                                          *)
C9_WrongNumberByPosition ==
    Done("references") =>
        \/ \A p \in 1..Len(doc.paragraphs) : C9_Observed(p) = C9_ExpectedFromFirst(p)
        \/ \A p \in 1..Len(doc.paragraphs) : C9_Observed(p) = C9_ExpectedFromNearest(p)

---------------------------------------------------------------------------
(* C10 *)

\* the code points of the excluded letters Ё, З, Й, О, Ч, Ь, Ы, Ъ
C10_Excluded == {1025, 1047, 1049, 1054, 1063, 1068, 1067, 1066}

(* C10: for every paragraph 'Приложение L' with L one of the eight         *)
(* excluded letters, exactly one 'disallowed letter' issue and no          *)
(* 'invalid designation' issue is emitted for the paragraph.               *)
C10_ExcludedLetterFlagged ==
    Done("appendices") =>
        \A p \in 1..Len(doc.paragraphs) : \A c \in C10_Excluded :
            doc.paragraphs[p].text = sPrilozhenie \o <<32, c>> =>
                /\ CountAt("appendices", "disallowed_letter", <<p>>) = 1
                /\ CountAt("appendices", "invalid_designation", <<p>>) = 0

---------------------------------------------------------------------------
(* C11 *)

\* paragraph p begins with 'Таблица ' or 'Продолжение таблицы ' and no
\* number follows the word
C11_Malformed(p) ==
    LET text == Strip(doc.paragraphs[p].text)
        main == AfterWordSpaces(text, sTablitsa)
        cont == AfterWordSpaces(text, sProdTabl)
    IN  \/ /\ StartsWith(text, sTablitsa \o <<32>>)
           /\ (main = << >> \/ DigitSpan(main[1]) = 0)
        \/ /\ StartsWith(text, sProdTabl \o <<32>>)
           /\ (cont = << >> \/ DigitSpan(cont[1]) = 0)

(* C11: in a document with tables, every caption paragraph beginning with  *)
(* 'Таблица ' or 'Продолжение таблицы ' whose number is malformed produces *)
(* exactly one 'invalid table number' issue.                               *)
C11_MalformedNumberReported ==
    (Done("tables") /\ doc.has_tables) =>
        \A p \in 1..Len(doc.paragraphs) :
            C11_Malformed(p) => CountAt("tables", "invalid_number", <<p>>) = 1

---------------------------------------------------------------------------
(* C12 *)

(* C12: within one pass the issue strings contributed by one checker are   *)
(* pairwise distinct: no checker appends the same issue string twice.      *)
C12_NoDuplicateStrings ==
    \A i, j \in 1..Len(issues) :
        (i < j /\ issues[i].chk = issues[j].chk)
            => IssueString(issues[i]) # IssueString(issues[j])

---------------------------------------------------------------------------
(* C13 *)

\* the checker that was running when the exception left validate_all
C13_Running == CheckerOrder[Len(trace) + 1]

\* validate_page_format fails inside: a dimension of some section is missing
\* (arithmetic on None raises), or reading the document fails there
C13_PageFormatFails ==
    \/ FailsIn(doc, "page_format")
    \/ \E k \in 1..Len(doc.sections) :
          \E f \in {"page_width", "page_height", "left_margin", "right_margin",
                    "top_margin", "bottom_margin"} : doc.sections[k][f] = None

\* one advisory issue exactly when the checker failed inside, and the pass
\* is at the checker that follows (after validate_appendices: at the return,
\* and once returned the list is the result and is what is shown)
C13_Contained ==
    /\ pc = "raised" => C13_Running \notin {"page_format", "appendices"}
    /\ Done("page_format") =>
          CountKind("page_format", "advisory") = (IF C13_PageFormatFails THEN 1 ELSE 0)
    /\ Done("appendices") =>
          /\ CountKind("appendices", "error")
                = (IF FailsIn(doc, "appendices") THEN 1 ELSE 0)
          /\ pc \in {"return", "idle"}
          /\ pc = "idle" =>
                /\ results # << >>
                /\ results[Len(results)] = issues
                /\ result_text = IssuesShown(issues)

\* the step of either checker ends in the call of the next checker, failed
\* inside or not, and leaves the issues found before untouched
C13_GoesOn ==
    /\ pc = "page_format" =>
          /\ pc' = "font"
          /\ trace' = Append(trace, "page_format")
          /\ SubSeq(issues', 1, Len(issues)) = issues
    /\ pc = "appendices" =>
          /\ pc' = "return"
          /\ trace' = Append(trace, "appendices")
          /\ SubSeq(issues', 1, Len(issues)) = issues
    /\ pc = "return" => (pc' = "idle" /\ results' = Append(results, issues))

(* C13: validate_page_format and validate_appendices never raise to        *)
(* validate_all: when one fails inside it appends exactly one advisory     *)
(* issue, validate_all goes on with the checkers that remain and returns   *)
(* the list.                                                               *)
C13_FailureContained == []C13_Contained /\ [][C13_GoesOn]_vars

\* a pass has returned a list that holds the advisory issue of a failed
\* validate_page_format and the error issue of a failed validate_appendices
C13_Witness ==
    /\ pc = "idle"
    /\ results # << >>
    /\ C13_PageFormatFails
    /\ FailsIn(doc, "appendices")
    /\ CountKind("page_format", "advisory") = 1
    /\ CountKind("appendices", "error") = 1
    /\ CountOf("appendices") > 1

---------------------------------------------------------------------------
(* C14 *)

\* the checkers without a try block around their body
C14_Unguarded ==
    {"font", "paragraphs", "headings", "tables", "figures", "equations", "references"}

\* an exception has left validate_all only from a failed unguarded checker;
\* the error line is shown alone, and a shown list is a returned list
C14_Aborted ==
    /\ pc = "raised" =>
          /\ C13_Running \in C14_Unguarded
          /\ FailsIn(doc, C13_Running)
          /\ ~Done(C13_Running)
    /\ result_text.kind = "error" => result_text.lines = << >>
    /\ result_text.kind \in {"issues", "conforms"} =>
          /\ results # << >>
          /\ result_text = IssuesShown(results[Len(results)])

\* a failing unguarded checker raises: no checker is run after it and nothing
\* is returned; the caller then shows the error and none of the issues
C14_Propagates ==
    /\ (pc \in C14_Unguarded /\ FailsIn(doc, pc)) =>
          /\ pc' = "raised"
          /\ trace' = trace
          /\ results' = results
    /\ pc = "raised" =>
          /\ pc' = "idle"
          /\ trace' = trace
          /\ results' = results
          /\ result_text' = Shown("error", << >>)

(* C14: when a checker without local exception handling (font, paragraphs, *)
(* headings, tables, figures, equations, references) raises during         *)
(* validate_all, the exception propagates: no issue list is returned, no   *)
(* later checker runs, and validate_document shows the error instead of    *)
(* any issue found so far.                                                 *)
C14_ExceptionPropagates == []C14_Aborted /\ [][C14_Propagates]_vars

\* the error is shown although the aborted pass had found issues, and no
\* list was ever returned
C14_Witness ==
    /\ result_text.kind = "error"
    /\ pc = "idle"
    /\ issues # << >>
    /\ results = << >>
    /\ ~Done("references")

---------------------------------------------------------------------------
(* C15 *)

\* the footer of section k carries page numbers: a footer paragraph has
\* non-blank text or holds a page-number field
C15_Carries(k) ==
    \E j \in 1..Len(doc.sections[k].footer) :
        \/ Strip(doc.sections[k].footer[j].text) # << >>
        \/ doc.sections[k].footer[j].field

\* the first section whose footer carries page numbers is the first or the
\* second one (zero-based index below 2)
C15_FirstCarrierEarly ==
    \E k \in 1..Len(doc.sections) :
        /\ k - 1 < 2
        /\ C15_Carries(k)
        /\ \A m \in 1..(k - 1) : ~C15_Carries(m)

(* C15: whenever the first section whose footer carries page numbers has a *)
(* zero-based index below 2, validate_page_numbering emits the issue that  *)
(* numbering must start on the third page, whatever the footers of the     *)
(* later sections hold.                                                    *)
C15_EarlyNumberingReported ==
    (Done("page_numbering") /\ C15_FirstCarrierEarly)
        => CountKind("page_numbering", "must_start_third") = 1

---------------------------------------------------------------------------
(* C16 *)

\* paragraph p is a heading of level 1, 2 or 3
C16_Numbered(p) == HeadingLevel(Strip(doc.paragraphs[p].text)) \in 1..3

\* the leading number of the numeric prefix of paragraph p
C16_LeadingNumber(p) ==
    LET text == Strip(doc.paragraphs[p].text)
    IN  DigitsValue(Take(text, DigitSpan(text)))

(* C16: validate_headings emits exactly one 'invalid numbering' issue for  *)
(* every heading of level 1, 2 or 3 whose numeric prefix does not denote   *)
(* an integer of at least 1 (leading number 0), and none for a heading     *)
(* whose leading number is at least 1.                                     *)
C16_InvalidNumberingReported ==
    Done("headings") =>
        \A p \in 1..Len(doc.paragraphs) :
            C16_Numbered(p) =>
                CountAt("headings", "invalid_numbering", <<p>>)
                    = (IF C16_LeadingNumber(p) < 1 THEN 1 ELSE 0)

---------------------------------------------------------------------------
(* C17 *)

\* the text of paragraph p as the fold reads it
C17_Text(p) == Upper(Strip(doc.paragraphs[p].text))

C17_Blank(p) == Strip(doc.paragraphs[p].text) = << >>

\* paragraph p names the terms section, the list of abbreviations (in
\* either spelling), another top-level section
C17_Terms(p) == Contains(C17_Text(p), sTerminy)
C17_Abbreviations(p) ==
    Contains(C17_Text(p), sSpisokSokrFull) \/ Contains(C17_Text(p), sSpisokSokrAlt)
C17_Other(p) ==
    \E w \in {sVvedenie, sSoderzhanie, sSpisokIst, sZakl, sPrilozhenieUp} :
        Contains(C17_Text(p), w)

\* paragraph p is processed and names some section
C17_Naming(p) == ~C17_Blank(p) /\ (C17_Terms(p) \/ C17_Abbreviations(p) \/ C17_Other(p))

\* paragraph p lies in the terms or the abbreviations section: the last
\* paragraph up to p that names a section names one of these two
C17_InSection(p) ==
    \E q \in 1..p :
        /\ C17_Naming(q)
        /\ C17_Terms(q) \/ C17_Abbreviations(q)
        /\ \A m \in (q + 1)..p : ~C17_Naming(m)

\* the alignment rule: body text that is no heading, contents entry, list
\* item or table continuation must be justified
C17_AlignmentBroken(p) ==
    LET text == Strip(doc.paragraphs[p].text)
    IN  /\ ~(\/ IsHeadingText(text) \/ IsTocEntry(doc.paragraphs[p].text, text)
             \/ IsListItem(text) \/ IsTableContinuation(text))
        /\ doc.paragraphs[p].alignment \notin {"JUSTIFY", "NONE"}

(* C17: in the fold of validate_paragraphs the flags in_terms_section and  *)
(* in_abbreviations_section are never both set; a paragraph that names the *)
(* terms section sets only the first, one that names the list of           *)
(* abbreviations only the second, one that names another top-level section *)
(* clears both (the three cases in this order of precedence); a paragraph  *)
(* processed while either flag is set gets no indent and no line-spacing   *)
(* issue, and the alignment rule applies to it all the same.               *)
C17_SectionFlags ==
    Done("paragraphs") =>
        \A p \in 1..Len(doc.paragraphs) :
            LET ctx == ContextAfter(doc, p)
            IN  /\ ~(ctx.in_terms_section /\ ctx.in_abbreviations_section)
                /\ ~C17_Blank(p) =>
                      /\ C17_Terms(p) => ctx = Context(TRUE, FALSE)
                      /\ (C17_Abbreviations(p) /\ ~C17_Terms(p))
                            => ctx = Context(FALSE, TRUE)
                      /\ (C17_Other(p) /\ ~C17_Terms(p) /\ ~C17_Abbreviations(p))
                            => ctx = Context(FALSE, FALSE)
                      /\ (ctx.in_terms_section \/ ctx.in_abbreviations_section)
                            <=> C17_InSection(p)
                      /\ C17_InSection(p) =>
                            /\ CountAt("paragraphs", "indent", <<p>>) = 0
                            /\ CountAt("paragraphs", "line_spacing", <<p>>) = 0
                            /\ CountAt("paragraphs", "alignment", <<p>>)
                                  = (IF C17_AlignmentBroken(p) THEN 1 ELSE 0)

\* the terms section is followed by the list of abbreviations, and body
\* text in it that is left-aligned, without indent and single-spaced got
\* the alignment issue only, while the same text before the sections got
\* all three issues
C17_Witness ==
    /\ Done("paragraphs")
    /\ Len(doc.paragraphs) = 3
    /\ ~C17_InSection(1)
    /\ CountAllAt("paragraphs", <<1>>) = 3
    /\ C17_Abbreviations(2)
    /\ C17_InSection(3)
    /\ ~C17_Naming(3)
    /\ CountAt("paragraphs", "alignment", <<3>>) = 1
    /\ CountAllAt("paragraphs", <<3>>) = 1

=============================================================================
